---- MODULE Spec2Model ----
(***************************************************************************)
(* State-machine model of the JPEG XL image handler (QJpegXLHandler) of    *)
(* src/src/imageformats/jxl.cpp.  One handler serves one input stream; the *)
(* host calls its operations strictly one after the other.  The external   *)
(* JPEG XL decoder is modelled by what the handler observes of it: whether *)
(* a call succeeds, and how many frames it has emitted or skipped since    *)
(* its last rewind.                                                        *)
(***************************************************************************)
EXTENDS Integers, Sequences, FiniteSets, TLC

\* ------------------------------------------------------------------ bounds

\* largest number of frames of an input flagged as animation
MaxFrames == 3
\* largest Exif payload of which every content is tried
MaxExifBytes == 5
\* largest number of pixels of a CMYK image
MaxCmykPixels == 2
\* largest number of extra channels of an input
MaxExtraChannels == 3
\* largest number of characters of the dimensions of a PFM header of which
\* every text is tried
MaxHeaderChars == 4
\* largest width and height of a PFM image with pixel data
MaxPfmDim == 2
\* largest number of times the encoder asks for more output
MaxRounds == 2

\* ------------------------------------------------------- program constants

MAX_IMAGE_WIDTH == 262144
MAX_IMAGE_HEIGHT == 262144
MAX_IMAGE_PIXELS == 268435456
\* QJpegXLHandler::QJpegXLHandler: m_quality(90)
DefaultQuality == 90
\* canRead(QIODevice *): header.size() < 12
MinHeaderSize == 12
\* canRead(QIODevice *): device->peek(32)
PeekSize == 32
\* extractBox: output.size() > 4194304
BoxSizeLimit == 4194304
\* extractBox: output.append(16384, '\0')
BoxGrowStep == 16384
\* decodeContainer: exifBox.size() > 4
TiffHeaderSize == 4
\* countALLFrames: the largest value of int delay
INT_MAX == 2147483647
\* write: compressed.resize(4096)
OutputChunk == 4096

\* the build defines JXL_QT_AUTOTRANSFORM (Qt >= 6.7.3)
JXL_QT_AUTOTRANSFORM == TRUE
\* the build has the CMYK detection (Qt >= 6.8.0)
QT_HAS_CMYK == TRUE

\* m_current_image values besides a frame number 0, 1, ...
NullImage == -1      \* QImage() / failed allocation
PartialImage == -2   \* allocated, pixels not (completely) decoded
\* the read() out-parameter when read() did not assign it
Untouched == -3

ParseStates == {"NotParsed", "BasicInfoParsed", "Success", "Finished", "Error"}

\* ------------------------------------------------------------- the input

\* What the device holds and the host offers.  sig is the answer of
\* JxlSignatureCheck on the bytes; durations has one entry per frame of an
\* input flagged as animation (the last one is marked is_last).
GoodDims == [xsize |-> 4, ysize |-> 2]
\* within the caps on width and height, 2^29 pixels
WideDims == [xsize |-> 32768, ysize |-> 16384]

DimsSet ==
    { [xsize |-> 0, ysize |-> 2], [xsize |-> 4, ysize |-> 0],
      [xsize |-> MAX_IMAGE_WIDTH + 1, ysize |-> 2],
      [xsize |-> 4, ysize |-> MAX_IMAGE_HEIGHT + 1],
      GoodDims }

DurationsOf(n, d) == [i \in 1..n |-> d * i]

File(len, sig, dims, anim, durs, num, orig, cont, loops, orient, cores) ==
    [ len |-> len, sig |-> sig, xsize |-> dims.xsize, ysize |-> dims.ysize,
      have_animation |-> anim, durations |-> durs,
      tps_numerator |-> num, tps_denominator |-> 1, num_loops |-> loops,
      uses_original_profile |-> orig, have_container |-> cont,
      orientation |-> orient, cores |-> cores, boxes |-> <<>>,
      \* an sRGB image without extra channels
      num_color_channels |-> 3, alpha_bits |-> 0, colorspace |-> "sRGB",
      extra_channels |-> <<>>,
      \* what the build makes of (int) of a double above INT_MAX
      int_overflow |-> -INT_MAX - 1 ]

\* A box of a container.  raw is what JxlDecoderGetBoxSizeRaw reports, payload
\* the number of bytes the decoder writes for the box (its contents,
\* decompressed), tiffLE and tiffBE the first index of "II*\0" and of "MM\0*"
\* in them (-1: not there).
Box(type, raw, payload, tiffLE, tiffBE) ==
    [ type |-> type, raw |-> raw, payload |-> payload,
      tiffLE |-> tiffLE, tiffBE |-> tiffBE ]

WithBoxes(fl, boxes) == [fl EXCEPT !.boxes = boxes]

\* a static image in a container of len bytes
Container(len) ==
    File(len, "CONTAINER", GoodDims, FALSE, <<>>, 0, FALSE, TRUE, 0, 1, 2)

\* inputs the handler gives up on before any frame is counted
BadFiles ==
    { File(0, "NOT_ENOUGH_BYTES", GoodDims, FALSE, <<>>, 0, FALSE, FALSE, 0, 1, 2),
      File(8, "NOT_ENOUGH_BYTES", GoodDims, FALSE, <<>>, 0, FALSE, FALSE, 0, 1, 2),
      File(40, "INVALID", GoodDims, FALSE, <<>>, 0, FALSE, FALSE, 0, 1, 8),
      File(8, "CODESTREAM", GoodDims, FALSE, <<>>, 0, FALSE, FALSE, 0, 1, 8) }
    \cup { File(40, "CODESTREAM", d, FALSE, <<>>, 0, FALSE, FALSE, 0, 1, 8) :
             d \in DimsSet \ {GoodDims} }

StaticFiles ==
    { File(40, "CODESTREAM", GoodDims, FALSE, <<>>, 0, FALSE, FALSE, 0, 1, 2),
      File(40, "CODESTREAM", GoodDims, FALSE, <<>>, 0, TRUE, TRUE, 0, 9, 8),
      File(40, "CONTAINER", GoodDims, FALSE, <<>>, 0, FALSE, TRUE, 0, 6, 8),
      File(40, "CODESTREAM", WideDims, FALSE, <<>>, 0, FALSE, FALSE, 0, 1, 2) }

AnimFiles ==
    { File(40, "CODESTREAM", GoodDims, TRUE, DurationsOf(n, 100), 1000, FALSE, FALSE, 0, 1, 8) :
        n \in 0..MaxFrames }
    \cup { File(40, "CONTAINER", GoodDims, TRUE, DurationsOf(n, 3), 0, TRUE, TRUE, 2, 1, 2) :
             n \in 1..MaxFrames }

\* containers with metadata boxes
BoxFiles ==
    { \* small boxes; only the first box of a type counts
      WithBoxes(Container(1024),
                << Box("jxlc", 300, 292, -1, -1), Box("Exif", 108, 100, 4, 40),
                   Box("xml ", 58, 50, -1, -1), Box("Exif", 28, 20, -1, 4) >>),
      \* an Exif box without a TIFF header, no XMP box
      WithBoxes(Container(1024), << Box("Exif", 108, 100, -1, -1) >>),
      \* a box said to be longer than the input
      WithBoxes(Container(1024), << Box("xml ", 2048, 2040, -1, -1) >>),
      \* an uncompressed Exif box of 5 MiB
      WithBoxes(Container(6291456), << Box("Exif", 5242880, 5242872, 4, -1) >>),
      \* a compressed XMP box that unfolds to 50000 bytes
      WithBoxes(Container(1024), << Box("xml ", 58, 50000, -1, -1) >>),
      \* compressed XMP boxes of 4 MiB - 4 KiB that unfold to 4 MiB + 1000
      \* bytes and to 5 MiB
      WithBoxes(Container(6291456), << Box("xml ", 4190208, 4195304, -1, -1) >>),
      WithBoxes(Container(6291456), << Box("xml ", 4190208, 5242880, -1, -1) >>),
      \* an Exif box said to be longer than the input, after and before an
      \* XMP box that fits
      WithBoxes(Container(1024),
                << Box("xml ", 58, 50, -1, -1), Box("Exif", 2048, 2040, 4, -1) >>),
      WithBoxes(Container(1024),
                << Box("Exif", 2048, 2040, 4, -1), Box("xml ", 58, 50, -1, -1) >>) }

Files == BadFiles \cup StaticFiles \cup AnimFiles \cup BoxFiles

\* What the decoder says about the colours.  colorspace is what m_colorspace
\* is made of the profile ("invalid": no profile Qt can use), extra_channels
\* the type of each extra channel, as JxlDecoderGetExtraChannelInfo gives it.
ColorFiles ==
    LET ColorSpaces == {"invalid", "sRGB", "CMYK"}
        ChannelTypes == {"ALPHA", "BLACK", "DEPTH"}
        fl == File(40, "CODESTREAM", GoodDims, FALSE, <<>>, 0, FALSE, FALSE, 0, 1, 2)
    IN  { [fl EXCEPT !.uses_original_profile = orig, !.num_color_channels = ncc,
                     !.alpha_bits = abits, !.colorspace = cs,
                     !.extra_channels = channels] :
            orig \in BOOLEAN, ncc \in {1, 3}, abits \in {0, 8}, cs \in ColorSpaces,
            channels \in UNION { [1..n -> ChannelTypes] : n \in 0..MaxExtraChannels } }

\* Animations by their time base.  The durations and the time base are
\* unsigned 32-bit numbers in the input; the ones tried keep duration *
\* tps_denominator below 2^31 and tps_numerator at 10^6 or less.
DelayFiles ==
    LET DelayDurations == {0, 1, 3, 100, 2147483, 2147484, 4000000}
        DelayNumerators == {0, 1, 2, 3, 1000, 1000000}
        DelayDenominators == {0, 1, 2, 500}
        \* (int) of a double above INT_MAX: INT_MIN or INT_MAX
        IntOverflows == {-INT_MAX - 1, INT_MAX}
        fl == File(40, "CODESTREAM", GoodDims, TRUE, <<>>, 1, FALSE, FALSE, 0, 1, 2)
    IN  { [fl EXCEPT !.durations = durs, !.tps_numerator = num,
                     !.tps_denominator = den, !.int_overflow = ov] :
            durs \in UNION { [1..n -> DelayDurations] : n \in 1..2 },
            num \in DelayNumerators, den \in DelayDenominators, ov \in IntOverflows }

\* decodeContainer: tiffHeaderBE "MM\0*" and tiffHeaderLE "II*\0"
tiffHeaderBE == <<77, 77, 0, 42>>
tiffHeaderLE == <<73, 73, 42, 0>>

\* QByteArray::indexOf: the first index (from 0) at which pattern occurs in
\* bytes, -1 when it does not
indexOf(bytes, pattern) ==
    LET at == { i \in 0..(Len(bytes) - Len(pattern)) :
                  SubSeq(bytes, i + 1, i + Len(pattern)) = pattern }
    IN  IF at = {} THEN -1 ELSE CHOOSE i \in at : \A j \in at : i <= j

\* a box with these contents, stored uncompressed after a header of 8 bytes
BoxOfBytes(type, bytes) ==
    [ type |-> type, raw |-> Len(bytes) + 8, payload |-> Len(bytes),
      tiffLE |-> indexOf(bytes, tiffHeaderLE),
      tiffBE |-> indexOf(bytes, tiffHeaderBE), bytes |-> bytes ]

\* the bytes Exif payloads are made of here: those of the two TIFF headers
\* Containers with one Exif box: every short payload of the bytes of the two
\* headers, and longer ones made of an offset and two blocks of four bytes,
\* so that both headers can occur
ExifFiles ==
    LET ExifBytes == {0, 42, 73, 77}
        ExifPayloads ==
            UNION { [1..n -> ExifBytes] : n \in 0..MaxExifBytes }
            \cup { p \o a \o b : p \in {<<>>, <<0>>, <<77>>},
                                  a \in {tiffHeaderBE, tiffHeaderLE, <<0, 0, 0, 0>>},
                                  b \in {tiffHeaderBE, tiffHeaderLE, <<73, 73, 0, 42>>} }
    IN  { WithBoxes(Container(1024), << BoxOfBytes("Exif", b) >>) : b \in ExifPayloads }

\* The library calls that can fail, one name for the calls whose failure
\* leaves the handler in the same state.
\*   "setup"     ensureDecoder: SetParallelRunner, SetInput, SubscribeEvents,
\*               ProcessInput, GetBasicInfo
\*   "color"     countALLFrames: ProcessInput up to the first frame header
\*   "lastframe" countALLFrames: ProcessInput / GetFrameHeader at the last frame
\*   "extrachannel" countALLFrames: the first JxlDecoderGetExtraChannelInfo
\*   "alphachannel" countALLFrames: the first JxlDecoderGetExtraChannelInfo of
\*               the search for alpha behind the black channel
\*   "container" decodeContainer, extractBox: any call
\*   "rewind"    rewind: any call
\*   "outbuf"    decode_one_frame: ProcessInput before the output buffer
\*   "fullimage" decode_one_frame: SetImageOutBuffer, ProcessInput to FULL_IMAGE
ParseFailPoints == {"none", "JxlDecoderCreate", "setup"}
CountFailPoints == ParseFailPoints \cup {"color", "lastframe", "container", "rewind"}
FailPoints == CountFailPoints \cup {"outbuf", "imageAlloc", "fullimage"}
ColorFailPoints == {"none", "extrachannel", "alphachannel", "container", "fullimage"}

VARIABLES
    file,    \* the input and the host, fixed for the life of the handler
    h,       \* the handler's fields, plus what its last operation did
    pre,     \* the handler's fields before its last operation
    op,      \* the last operation and its argument
    ret,     \* what the last operation returned
    alive    \* FALSE once the handler is destroyed

vars == <<file, h, pre, op, ret, alive>>

\* ----------------------------------------------------------- the handler

NoInfo ==
    [ xsize |-> 0, ysize |-> 0, have_animation |-> FALSE,
      uses_original_profile |-> FALSE, have_container |-> FALSE,
      orientation |-> 1, num_loops |-> 0,
      num_color_channels |-> 0, alpha_bits |-> 0, num_extra_channels |-> 0 ]

\* QJpegXLHandler::QJpegXLHandler
NewHandler ==
    [ m_parseState |-> "NotParsed",
      m_quality |-> DefaultQuality,
      m_currentimage_index |-> 0,
      m_previousimage_index |-> -1,
      m_transformations |-> 0,
      m_decoder |-> FALSE,
      m_runner |-> FALSE,
      m_next_image_delay |-> 0,
      m_framedelays |-> <<>>,
      m_current_image |-> NullImage,
      m_rawData |-> "null",
      m_colorspace |-> "invalid",
      m_isCMYK |-> FALSE,
      m_cmyk_channel_id |-> 0,
      m_alpha_channel_id |-> 0,
      \* the metadata, by their length in bytes
      m_exif |-> 0,
      m_xmp |-> 0,
      \* where in the payload of the Exif box m_exif starts (-1: not assigned)
      exifIndex |-> -1,
      \* the device: its read position
      device_pos |-> 0,
      m_basicinfo |-> NoInfo,
      \* the decoder: frames emitted or skipped since its last rewind
      dec_pos |-> 0,
      \* what the current operation did
      rewinds |-> 0, skipped |-> 0, decodes |-> 0, counted |-> FALSE,
      readAlls |-> 0, out_image |-> Untouched,
      \* the boxes of this operation whose output was sized and handed to the
      \* decoder
      boxesSized |-> 0,
      \* write: whether it created its encoder and its worker pool, and
      \* whether the device took the compressed image
      encoder_created |-> FALSE, runner_created |-> FALSE, written |-> FALSE,
      \* the handles the operation destroyed, in that order
      destroyed |-> <<>>,
      \* handles created and destroyed over the handler's life
      decoders_created |-> 0, decoders_destroyed |-> 0,
      runners_created |-> 0, runners_destroyed |-> 0 ]

\* the fields at the start of an operation
Begin(s) ==
    [s EXCEPT !.rewinds = 0, !.skipped = 0, !.decodes = 0, !.counted = FALSE,
              !.readAlls = 0, !.out_image = Untouched, !.boxesSized = 0,
              !.encoder_created = FALSE, !.runner_created = FALSE,
              !.written = FALSE, !.destroyed = <<>>]

R(s, ok) == [h |-> s, ok |-> ok]

Error(s) == R([s EXCEPT !.m_parseState = "Error"], FALSE)

\* number of frames the decoder can emit from this input
NumFrames(fl) == IF fl.have_animation THEN Len(fl.durations) ELSE 1

Min(a, b) == IF a < b THEN a ELSE b

\* JxlDecoderSkipFrames: amounts add up; never past the last frame
JxlDecoderSkipFrames(s, fl, amount) ==
    [s EXCEPT !.dec_pos = Min(s.dec_pos + amount, NumFrames(fl)),
              !.skipped = s.skipped + amount]

\* a QIODevice *: null, or a device that holds len bytes, with the answer sig
\* of JxlSignatureCheck on them, and has been read up to pos
Device(is_null, len, sig, pos) ==
    [is_null |-> is_null, len |-> len, sig |-> sig, pos |-> pos]

NullDevice == Device(TRUE, 0, "NOT_ENOUGH_BYTES", 0)

\* device() of a handler
DeviceOf(s, fl) == Device(FALSE, fl.len, fl.sig, s.device_pos)

\* QIODevice::peek: up to maxlen bytes from the position on, which stays
peek(dev, maxlen) ==
    [size |-> Min(maxlen, dev.len - dev.pos), dev |-> dev]

\* canRead(QIODevice *) taking the header off the device
canReadDevice_consumesHeader(dev) ==
    IF dev.is_null THEN [ok |-> FALSE, dev |-> dev]
    ELSE
    LET header == peek(dev, PeekSize)
        after  == [dev EXCEPT !.pos = dev.pos + header.size]
    IN  IF header.size < MinHeaderSize THEN [ok |-> FALSE, dev |-> after]
        ELSE [ok |-> dev.sig \in {"CODESTREAM", "CONTAINER"}, dev |-> after]

\* QJpegXLHandler::canRead(QIODevice *); dev is the device afterwards
canReadDevice(dev) ==
    IF dev.is_null THEN [ok |-> FALSE, dev |-> dev]
    ELSE
    LET header == peek(dev, PeekSize)
    IN  IF header.size < MinHeaderSize THEN [ok |-> FALSE, dev |-> header.dev]
        ELSE [ok |-> dev.sig \in {"CODESTREAM", "CONTAINER"}, dev |-> header.dev]

\* a rewind that lets go of the decoder instead of rewinding it
rewind_dropsDecoder(s, fl, f) ==
    LET s1 == [s EXCEPT !.m_currentimage_index = 0, !.dec_pos = 0,
                        !.rewinds = s.rewinds + 1, !.m_decoder = FALSE]
    IN  IF f = "rewind" THEN Error(s1) ELSE R(s1, TRUE)

\* QJpegXLHandler::rewind
rewind(s, fl, f) ==
    LET s1 == [s EXCEPT !.m_currentimage_index = 0, !.dec_pos = 0,
                        !.rewinds = s.rewinds + 1]
    IN  IF f = "rewind" THEN Error(s1) ELSE R(s1, TRUE)

\* QJpegXLHandler::ensureDecoder
ensureDecoder(s, fl, f) ==
    IF s.m_decoder THEN R(s, TRUE)
    ELSE
    \* readAll takes what is left of the device
    LET s0 == [s EXCEPT !.m_rawData = IF fl.len - s.device_pos = 0
                                      THEN "empty" ELSE "data",
                        !.device_pos = fl.len,
                        !.readAlls = s.readAlls + 1]
        s1 == [s0 EXCEPT !.m_decoder = TRUE,
                         !.decoders_created = s0.decoders_created + 1]
        newRunner == ~s1.m_runner /\ fl.cores >= 4
        s2 == IF newRunner
              THEN [s1 EXCEPT !.m_runner = TRUE,
                              !.runners_created = s1.runners_created + 1]
              ELSE s1
        s3 == [s2 EXCEPT !.m_basicinfo =
                 [ xsize |-> fl.xsize, ysize |-> fl.ysize,
                   have_animation |-> fl.have_animation,
                   uses_original_profile |-> fl.uses_original_profile,
                   have_container |-> fl.have_container,
                   orientation |-> fl.orientation,
                   num_loops |-> fl.num_loops,
                   num_color_channels |-> fl.num_color_channels,
                   alpha_bits |-> fl.alpha_bits,
                   num_extra_channels |-> Len(fl.extra_channels) ]]
    IN  IF s0.m_rawData = "empty" THEN R(s0, FALSE)
        ELSE IF fl.sig \notin {"CODESTREAM", "CONTAINER"} THEN Error(s0)
        ELSE IF f = "JxlDecoderCreate" THEN Error(s0)
        ELSE IF f = "setup" THEN Error(s2)
        ELSE IF s3.m_basicinfo.xsize = 0 \/ s3.m_basicinfo.ysize = 0 THEN Error(s3)
        ELSE IF \/ s3.m_basicinfo.xsize > MAX_IMAGE_WIDTH
                \/ s3.m_basicinfo.ysize > MAX_IMAGE_HEIGHT THEN Error(s3)
        ELSE R([s3 EXCEPT !.m_parseState = "BasicInfoParsed"], TRUE)

\* ensureParsed without its check of the latched error
ensureParsed_noErrorCheck(s, fl, f) ==
    IF s.m_parseState \in {"Success", "BasicInfoParsed", "Finished"} THEN R(s, TRUE)
    ELSE ensureDecoder(s, fl, f)

\* QJpegXLHandler::ensureParsed
ensureParsed(s, fl, f) ==
    IF s.m_parseState \in {"Success", "BasicInfoParsed", "Finished"} THEN R(s, TRUE)
    ELSE IF s.m_parseState = "Error" THEN R(s, FALSE)
    ELSE ensureDecoder(s, fl, f)

\* countALLFrames: (int) of the double 0.5 + 1000.0 * ticks / num, for ticks =
\* duration * tps_denominator.  The value is 1000 * whole + millis, with
\* whole the seconds and millis the rest in milliseconds, rounded half up; a
\* value above INT_MAX is not representable in int, and the conversion is
\* undefined: it gives what the build gives.
intOfDelay(fl, whole, millis) ==
    IF whole > INT_MAX \div 1000
         \/ (whole = INT_MAX \div 1000 /\ millis > INT_MAX % 1000)
    THEN fl.int_overflow
    ELSE 1000 * whole + millis

\* countALLFrames: delay = (int)(0.5 + 1000.0 * duration * tps_denominator / tps_numerator)
FrameDelay(fl, i) ==
    IF fl.tps_denominator > 0 /\ fl.tps_numerator > 0
    THEN intOfDelay(fl,
                    (fl.durations[i] * fl.tps_denominator) \div fl.tps_numerator,
                    (2000 * ((fl.durations[i] * fl.tps_denominator) % fl.tps_numerator)
                       + fl.tps_numerator) \div (2 * fl.tps_numerator))
    ELSE 0

\* the loop of extractBox without its limit on the output
RECURSIVE growOutput_noLimit(_, _)
growOutput_noLimit(size, payload) ==
    IF payload > size
    THEN growOutput_noLimit(size + BoxGrowStep, payload)
    ELSE [ok |-> TRUE, size |-> payload]

\* extractBox, the loop on JxlDecoderProcessInput: size is output.size(); the
\* decoder asks for more output while the box has more bytes than the output
\* holds, and at JXL_DEC_BOX_COMPLETE the unused bytes are chopped off
RECURSIVE growOutput(_, _)
growOutput(size, payload) ==
    IF payload > size
    THEN IF size > BoxSizeLimit THEN [ok |-> FALSE, size |-> size]
         ELSE growOutput(size + BoxGrowStep, payload)
    ELSE [ok |-> TRUE, size |-> payload]

\* extractBox, from the end of the loop on: g is the loop's outcome
boxExtracted(s, g) ==
    IF ~g.ok THEN [h |-> Error(s).h, ok |-> FALSE, size |-> g.size, sized |-> TRUE]
    ELSE [h |-> s, ok |-> TRUE, size |-> g.size, sized |-> TRUE]

\* extractBox sizing the output before it looks at the raw size
extractBox_sizeBeforeCheck(s, box, container_size) ==
    IF box.raw > container_size
    THEN [h |-> Error(s).h, ok |-> FALSE, size |-> box.raw, sized |-> TRUE]
    ELSE boxExtracted(s, growOutput(box.raw, box.payload))

\* QJpegXLHandler::extractBox; size is the length of output afterwards, sized
\* whether output was resized and handed to the decoder
extractBox(s, box, container_size) ==
    IF box.raw > container_size
    THEN [h |-> Error(s).h, ok |-> FALSE, size |-> 0, sized |-> FALSE]
    ELSE boxExtracted(s, growOutput(box.raw, box.payload))

\* decodeContainer: the first box of a type in the input (0: none)
FirstBox(fl, type) ==
    LET is == {i \in 1..Len(fl.boxes) : fl.boxes[i].type = type}
    IN  IF is = {} THEN 0 ELSE CHOOSE i \in is : \A j \in is : i <= j

\* decodeContainer: extractBox on the i-th box, nothing for i = 0
extractFirst(s, fl, i) ==
    IF i = 0 THEN [h |-> s, ok |-> TRUE, size |-> 0, sized |-> FALSE]
    ELSE extractBox(s, fl.boxes[i], fl.len)

\* the Exif post-processing taking the little-endian header whenever there is one
ExifIndex_preferLE(box, size) ==
    IF size > TiffHeaderSize
    THEN IF box.tiffLE # -1 THEN box.tiffLE
         ELSE IF box.tiffBE # -1 THEN box.tiffBE
         ELSE -1
    ELSE -1

\* decodeContainer: the index handed to exifBox.mid for an Exif box of that
\* many bytes (-1: m_exif is not assigned)
ExifIndex(box, size) ==
    IF size > TiffHeaderSize
    THEN IF box.tiffLE # -1
         THEN IF box.tiffBE = -1 THEN box.tiffLE
              ELSE IF box.tiffLE <= box.tiffBE THEN box.tiffLE ELSE box.tiffBE
         ELSE IF box.tiffBE # -1 THEN box.tiffBE
         ELSE -1
    ELSE -1

\* QByteArray::mid(pos) on an array of size bytes: the length of the result
midSize(size, pos) == IF pos >= size THEN 0 ELSE size - pos

\* decodeContainer: the length of m_exif for an Exif box of that many bytes
ExifFromBox(s, box, size) ==
    IF ExifIndex(box, size) # -1 THEN midSize(size, ExifIndex(box, size))
    ELSE s.m_exif

\* decodeContainer, from the box scan on: ie and ix are the first Exif box and
\* the first XMP box of the input, exifBox and xmpBox what extractBox made of
\* them.  The boxes come in the order of the input, and the scan ends at the
\* first box that extractBox gives up on.
scanBoxes(s, fl, f, ie, ix, exifBox, xmpBox) ==
    LET exifRan == ie # 0 /\ (xmpBox.ok \/ ie < ix)
        xmpRan  == ix # 0 /\ (exifBox.ok \/ ix < ie)
        n == (IF exifRan /\ exifBox.sized THEN 1 ELSE 0)
               + (IF xmpRan /\ xmpBox.sized THEN 1 ELSE 0)
    IN  IF f = "container" THEN Error(s)
        ELSE IF ~exifBox.ok \/ ~xmpBox.ok
        THEN Error([s EXCEPT !.boxesSized = s.boxesSized + n])
        ELSE R([s EXCEPT
                  !.boxesSized = s.boxesSized + n,
                  !.m_xmp = IF xmpBox.size > 0 THEN xmpBox.size ELSE s.m_xmp,
                  !.m_exif = IF ie = 0 THEN s.m_exif
                             ELSE ExifFromBox(s, fl.boxes[ie], exifBox.size),
                  !.exifIndex = IF ie = 0 THEN s.exifIndex
                                ELSE IF ExifIndex(fl.boxes[ie], exifBox.size) # -1
                                THEN ExifIndex(fl.boxes[ie], exifBox.size)
                                ELSE s.exifIndex],
               TRUE)

\* the container after JxlDecoderRewind
rewound(s) == [s EXCEPT !.dec_pos = 0]

\* QJpegXLHandler::decodeContainer
decodeContainer(s, fl, f) ==
    IF ~s.m_basicinfo.have_container THEN R(s, TRUE)
    ELSE IF fl.len = 0 THEN Error(s)
    ELSE IF fl.sig # "CONTAINER" THEN R(s, TRUE)
    ELSE scanBoxes(rewound(s), fl, f, FirstBox(fl, "Exif"), FirstBox(fl, "xml "),
                   extractFirst(rewound(s), fl, FirstBox(fl, "Exif")),
                   extractFirst(rewound(s), fl, FirstBox(fl, "xml ")))

\* the indices (from 0) of the extra channels of a type, from index lo on
ChannelsOfType(fl, type, lo) ==
    { i \in lo..(Len(fl.extra_channels) - 1) : fl.extra_channels[i + 1] = type }

\* the smallest of a set of indices that is not empty
First(is) == CHOOSE i \in is : \A j \in is : i <= j

\* the CMYK detection taking the last black channel instead of the first
blackChannelFound_lastBlack(s, fl, f, b, alphaBefore, alphaBehind) ==
    LET last == CHOOSE i \in ChannelsOfType(fl, "BLACK", 0) :
                    \A j \in ChannelsOfType(fl, "BLACK", 0) : j <= i
        sa == IF alphaBefore = {} THEN s
              ELSE [s EXCEPT !.m_alpha_channel_id = First(alphaBefore)]
        sk == [sa EXCEPT !.m_isCMYK = TRUE, !.m_cmyk_channel_id = last]
    IN  IF s.m_colorspace # "CMYK" THEN R(sa, TRUE)
        ELSE IF s.m_basicinfo.alpha_bits > 0 /\ alphaBefore = {}
        THEN IF alphaBehind = {} THEN Error(sk)
             ELSE IF f = "alphachannel" THEN Error(sk)
             ELSE R([sk EXCEPT !.m_alpha_channel_id = First(alphaBehind)], TRUE)
        ELSE R(sk, TRUE)

\* countALLFrames, CMYK detection, the extra channel of type BLACK at index b:
\* alphaBefore and alphaBehind are the alpha channels before and behind it
blackChannelFound(s, fl, f, b, alphaBefore, alphaBehind) ==
    LET sa == IF alphaBefore = {} THEN s
              ELSE [s EXCEPT !.m_alpha_channel_id = First(alphaBefore)]
        sk == [sa EXCEPT !.m_isCMYK = TRUE, !.m_cmyk_channel_id = b]
    IN  IF s.m_colorspace # "CMYK" THEN R(sa, TRUE)
        ELSE IF s.m_basicinfo.alpha_bits > 0 /\ alphaBefore = {}
        THEN IF alphaBehind = {} THEN Error(sk)
             ELSE IF f = "alphachannel" THEN Error(sk)
             ELSE R([sk EXCEPT !.m_alpha_channel_id = First(alphaBehind)], TRUE)
        ELSE R(sk, TRUE)

\* the loop over the extra channels looking for alpha behind the black
\* channel only
scanExtraChannels_alphaBehindOnly(s, fl, f, blacks, alphas) ==
    IF s.m_basicinfo.num_extra_channels = 0 THEN R(s, TRUE)
    ELSE IF f = "extrachannel" THEN Error(s)
    ELSE IF blacks = {}
    THEN IF alphas = {} THEN R(s, TRUE)
         ELSE R([s EXCEPT !.m_alpha_channel_id = First(alphas)], TRUE)
    ELSE blackChannelFound(s, fl, f, First(blacks), {},
                           { i \in alphas : i > First(blacks) })

\* countALLFrames, CMYK detection, the loop over the extra channels: blacks
\* and alphas are the indices of the channels of these types
scanExtraChannels(s, fl, f, blacks, alphas) ==
    IF s.m_basicinfo.num_extra_channels = 0 THEN R(s, TRUE)
    ELSE IF f = "extrachannel" THEN Error(s)
    ELSE IF blacks = {}
    THEN IF alphas = {} THEN R(s, TRUE)
         ELSE R([s EXCEPT !.m_alpha_channel_id = First(alphas)], TRUE)
    ELSE blackChannelFound(s, fl, f, First(blacks),
                           { i \in alphas : i < First(blacks) },
                           { i \in alphas : i > First(blacks) })

\* countALLFrames, CMYK detection
detectCMYK(s, fl, f) ==
    IF /\ QT_HAS_CMYK
       /\ s.m_basicinfo.uses_original_profile
       /\ s.m_basicinfo.num_color_channels = 3
       /\ s.m_colorspace # "invalid"
    THEN scanExtraChannels(s, fl, f, ChannelsOfType(fl, "BLACK", 0),
                           ChannelsOfType(fl, "ALPHA", 0))
    ELSE R(s, TRUE)

\* countALLFrames, its last step: w is what rewind returned
countSucceeded(w) ==
    IF ~w.ok THEN w
    ELSE R([w.h EXCEPT !.m_next_image_delay = w.h.m_framedelays[1],
                       !.m_parseState = "Success"], TRUE)

\* countALLFrames, once the frames are walked: c is what decodeContainer returned
framesCounted(c, fl, f) ==
    IF ~c.ok THEN c
    ELSE countSucceeded(rewind(c.h, fl, f))

\* countALLFrames, once the colours are known: d is what the CMYK detection
\* returned
colorsDetected(d, fl, f) ==
    IF ~d.ok THEN d
    ELSE framesCounted(decodeContainer(d.h, fl, f), fl, f)

\* countALLFrames clearing have_animation for two counted frames as well
countALLFrames_downgradeTwoFrames(s, fl, f) ==
    IF s.m_parseState # "BasicInfoParsed" THEN R(s, FALSE)
    ELSE IF f = "color" THEN Error(s)
    ELSE
    LET n == Len(fl.durations)
        all == [i \in 1..n |-> FrameDelay(fl, i)]
        sc == [s EXCEPT !.counted = TRUE, !.m_colorspace = fl.colorspace]
        fd == s.m_framedelays \o all
        sa == [sc EXCEPT !.m_framedelays = fd, !.dec_pos = n,
                         !.m_basicinfo.have_animation = (Len(fd) > 2)]
        ss == [sc EXCEPT !.m_framedelays = <<0>>]
        sf == IF s.m_basicinfo.have_animation THEN sa ELSE ss
    IN  IF s.m_basicinfo.have_animation /\ n > 1 /\ f = "lastframe"
        THEN Error([sc EXCEPT !.m_framedelays = SubSeq(fd, 1, Len(fd) - 1),
                              !.dec_pos = n - 1])
        ELSE IF s.m_basicinfo.have_animation /\ Len(fd) = 0 THEN Error(sc)
        ELSE colorsDetected(detectCMYK(sf, fl, f), fl, f)

\* countALLFrames leaving have_animation as the basic info has it
countALLFrames_keepAnimationFlag(s, fl, f) ==
    IF s.m_parseState # "BasicInfoParsed" THEN R(s, FALSE)
    ELSE IF f = "color" THEN Error(s)
    ELSE
    LET n == Len(fl.durations)
        all == [i \in 1..n |-> FrameDelay(fl, i)]
        sc == [s EXCEPT !.counted = TRUE, !.m_colorspace = fl.colorspace]
        fd == s.m_framedelays \o all
        sa == [sc EXCEPT !.m_framedelays = fd, !.dec_pos = n]
        ss == [sc EXCEPT !.m_framedelays = <<0>>]
        sf == IF s.m_basicinfo.have_animation THEN sa ELSE ss
    IN  IF s.m_basicinfo.have_animation /\ n > 1 /\ f = "lastframe"
        THEN Error([sc EXCEPT !.m_framedelays = SubSeq(fd, 1, Len(fd) - 1),
                              !.dec_pos = n - 1])
        ELSE IF s.m_basicinfo.have_animation /\ Len(fd) = 0 THEN Error(sc)
        ELSE colorsDetected(detectCMYK(sf, fl, f), fl, f)

\* QJpegXLHandler::countALLFrames
countALLFrames(s, fl, f) ==
    IF s.m_parseState # "BasicInfoParsed" THEN R(s, FALSE)
    ELSE IF f = "color" THEN Error(s)
    ELSE
    LET n == Len(fl.durations)
        all == [i \in 1..n |-> FrameDelay(fl, i)]
        sc == [s EXCEPT !.counted = TRUE, !.m_colorspace = fl.colorspace]
        \* the frames are walked up to the one marked is_last
        \* each frame's delay is appended to m_framedelays
        fd == s.m_framedelays \o all
        sa == [sc EXCEPT !.m_framedelays = fd, !.dec_pos = n,
                         !.m_basicinfo.have_animation = (Len(fd) # 1)]
        ss == [sc EXCEPT !.m_framedelays = <<0>>]
        sf == IF s.m_basicinfo.have_animation THEN sa ELSE ss
    IN  IF s.m_basicinfo.have_animation /\ n > 1 /\ f = "lastframe"
        THEN Error([sc EXCEPT !.m_framedelays = SubSeq(fd, 1, Len(fd) - 1),
                              !.dec_pos = n - 1])
        ELSE IF s.m_basicinfo.have_animation /\ Len(fd) = 0 THEN Error(sc)
        ELSE colorsDetected(detectCMYK(sf, fl, f), fl, f)

\* ensureALLCounted counting again although the frames are counted
ensureALLCounted_recount(s, fl, f) ==
    LET p == ensureParsed(s, fl, f)
    IN  IF ~p.ok THEN p
        ELSE countALLFrames(p.h, fl, f)

\* ensureALLCounted, after its call of ensureParsed, which returned p
countUnlessCounted(p, fl, f) ==
    IF ~p.ok THEN p
    ELSE IF p.h.m_parseState \in {"Success", "Finished"} THEN R(p.h, TRUE)
    ELSE countALLFrames(p.h, fl, f)

\* QJpegXLHandler::ensureALLCounted
ensureALLCounted(s, fl, f) == countUnlessCounted(ensureParsed(s, fl, f), fl, f)

\* the cursor advance without the rewind at the wrap-around
advanceCursor_noWrap(s, fl, f) ==
    LET s1 == [s EXCEPT !.m_next_image_delay = s.m_framedelays[s.m_currentimage_index + 1],
                        !.m_previousimage_index = s.m_currentimage_index]
        s2 == [s1 EXCEPT !.m_currentimage_index = s1.m_currentimage_index + 1]
    IN  IF Len(s1.m_framedelays) > 1
        THEN IF s2.m_currentimage_index >= Len(s2.m_framedelays)
             THEN R([s2 EXCEPT !.m_parseState = "Finished"], TRUE)
             ELSE R([s2 EXCEPT !.m_parseState = "Success"], TRUE)
        ELSE R([s1 EXCEPT !.m_parseState = "Finished"], TRUE)

\* the cursor advance latching Finished after every frame
advanceCursor_alwaysFinished(s, fl, f) ==
    LET s1 == [s EXCEPT !.m_next_image_delay = s.m_framedelays[s.m_currentimage_index + 1],
                        !.m_previousimage_index = s.m_currentimage_index]
        s2 == [s1 EXCEPT !.m_currentimage_index = s1.m_currentimage_index + 1]
        w  == rewind(s2, fl, f)
    IN  IF Len(s1.m_framedelays) > 1
        THEN IF s2.m_currentimage_index >= Len(s2.m_framedelays)
             THEN IF ~w.ok THEN w
                  ELSE R([w.h EXCEPT !.m_parseState = "Finished"], TRUE)
             ELSE R([s2 EXCEPT !.m_parseState = "Finished"], TRUE)
        ELSE R([s1 EXCEPT !.m_parseState = "Finished"], TRUE)

\* decode_one_frame, after the frame is in m_current_image: the cursor advance
advanceCursor(s, fl, f) ==
    LET s1 == [s EXCEPT !.m_next_image_delay = s.m_framedelays[s.m_currentimage_index + 1],
                        !.m_previousimage_index = s.m_currentimage_index]
        s2 == [s1 EXCEPT !.m_currentimage_index = s1.m_currentimage_index + 1]
        w  == rewind(s2, fl, f)
    IN  IF Len(s1.m_framedelays) > 1
        THEN IF s2.m_currentimage_index >= Len(s2.m_framedelays)
             THEN IF ~w.ok THEN w
                  ELSE R([w.h EXCEPT !.m_parseState = "Finished"], TRUE)
             ELSE R([s2 EXCEPT !.m_parseState = "Success"], TRUE)
        ELSE R([s1 EXCEPT !.m_parseState = "Finished"], TRUE)

\* decode_one_frame reporting a failed allocation without latching the error
decode_one_frame_noLatch(s, fl, f) ==
    IF f = "outbuf" \/ s.dec_pos >= NumFrames(fl) THEN Error(s)
    ELSE IF f = "imageAlloc" THEN R([s EXCEPT !.m_current_image = NullImage], FALSE)
    ELSE IF f = "fullimage"
         THEN Error([s EXCEPT !.m_current_image = PartialImage])
    ELSE advanceCursor([s EXCEPT !.m_current_image = s.dec_pos,
                                 !.dec_pos = s.dec_pos + 1,
                                 !.decodes = s.decodes + 1], fl, f)

\* QJpegXLHandler::decode_one_frame
decode_one_frame(s, fl, f) ==
    \* the decoder asks for an output buffer only while it has a frame left
    IF f = "outbuf" \/ s.dec_pos >= NumFrames(fl) THEN Error(s)
    ELSE IF f = "imageAlloc" THEN Error([s EXCEPT !.m_current_image = NullImage])
    ELSE IF f = "fullimage"
         THEN Error([s EXCEPT !.m_current_image = PartialImage])
    ELSE advanceCursor([s EXCEPT !.m_current_image = s.dec_pos,
                                 !.dec_pos = s.dec_pos + 1,
                                 !.decodes = s.decodes + 1], fl, f)

\* jumpToNextImage that wraps the index around without rewinding the decoder
jumpToNextImage_wrapWithoutRewind(s, fl, f) ==
    LET e  == ensureALLCounted(s, fl, f)
        s1 == [e.h EXCEPT !.m_currentimage_index = e.h.m_currentimage_index + 1]
    IN  IF ~e.ok THEN e
        ELSE IF Len(e.h.m_framedelays) > 1
        THEN IF s1.m_currentimage_index >= Len(s1.m_framedelays)
             THEN R([s1 EXCEPT !.m_parseState = "Success"], TRUE)
             ELSE R([JxlDecoderSkipFrames(s1, fl, 1) EXCEPT !.m_parseState = "Success"], TRUE)
        ELSE R([e.h EXCEPT !.m_parseState = "Success"], TRUE)

\* jumpToNextImage that moves the index on and leaves the decoder where it is
jumpToNextImage_noSkip(s, fl, f) ==
    LET e  == ensureALLCounted(s, fl, f)
        s1 == [e.h EXCEPT !.m_currentimage_index = e.h.m_currentimage_index + 1]
        w  == rewind(s1, fl, f)
    IN  IF ~e.ok THEN e
        ELSE IF Len(e.h.m_framedelays) > 1
        THEN IF s1.m_currentimage_index >= Len(s1.m_framedelays)
             THEN IF ~w.ok THEN w
                  ELSE R([w.h EXCEPT !.m_parseState = "Success"], TRUE)
             ELSE R([s1 EXCEPT !.m_parseState = "Success"], TRUE)
        ELSE R([e.h EXCEPT !.m_parseState = "Success"], TRUE)

\* jumpToNextImage that takes the delay of the frame it moves to
jumpToNextImage_setsDelay(s, fl, f) ==
    LET e  == ensureALLCounted(s, fl, f)
        s1 == [e.h EXCEPT !.m_currentimage_index = e.h.m_currentimage_index + 1]
        w  == rewind(s1, fl, f)
        to(x) == [x EXCEPT !.m_next_image_delay = x.m_framedelays[x.m_currentimage_index + 1],
                           !.m_parseState = "Success"]
    IN  IF ~e.ok THEN e
        ELSE IF Len(e.h.m_framedelays) > 1
        THEN IF s1.m_currentimage_index >= Len(s1.m_framedelays)
             THEN IF ~w.ok THEN w
                  ELSE R(to(w.h), TRUE)
             ELSE R(to(JxlDecoderSkipFrames(s1, fl, 1)), TRUE)
        ELSE R([e.h EXCEPT !.m_parseState = "Success"], TRUE)

\* QJpegXLHandler::jumpToNextImage
jumpToNextImage(s, fl, f) ==
    LET e  == ensureALLCounted(s, fl, f)
        s1 == [e.h EXCEPT !.m_currentimage_index = e.h.m_currentimage_index + 1]
        w  == rewind(s1, fl, f)
    IN  IF ~e.ok THEN e
        ELSE IF Len(e.h.m_framedelays) > 1
        THEN IF s1.m_currentimage_index >= Len(s1.m_framedelays)
             THEN IF ~w.ok THEN w
                  ELSE R([w.h EXCEPT !.m_parseState = "Success"], TRUE)
             ELSE R([JxlDecoderSkipFrames(s1, fl, 1) EXCEPT !.m_parseState = "Success"], TRUE)
        ELSE R([e.h EXCEPT !.m_parseState = "Success"], TRUE)

\* jumpToImage that skips forward without recording the new index
jumpToImage_noIndexUpdate(s, fl, f, imageNumber) ==
    LET e == ensureALLCounted(s, fl, f)
        c == e.h
        w == rewind(c, fl, f)
        k == IF imageNumber > 0 THEN JxlDecoderSkipFrames(w.h, fl, imageNumber) ELSE w.h
    IN  IF ~e.ok THEN e
        ELSE IF imageNumber < 0 \/ imageNumber >= Len(c.m_framedelays) THEN R(c, FALSE)
        ELSE IF imageNumber = c.m_currentimage_index
        THEN R([c EXCEPT !.m_parseState = "Success"], TRUE)
        ELSE IF imageNumber > c.m_currentimage_index
        THEN R([JxlDecoderSkipFrames(c, fl, imageNumber - c.m_currentimage_index)
                   EXCEPT !.m_parseState = "Success"], TRUE)
        ELSE IF ~w.ok THEN w
        ELSE R([k EXCEPT !.m_currentimage_index = imageNumber,
                         !.m_parseState = "Success"], TRUE)

\* jumpToImage that rewinds for every index other than the current one
jumpToImage_alwaysRewind(s, fl, f, imageNumber) ==
    LET e == ensureALLCounted(s, fl, f)
        c == e.h
        w == rewind(c, fl, f)
        k == IF imageNumber > 0 THEN JxlDecoderSkipFrames(w.h, fl, imageNumber) ELSE w.h
    IN  IF ~e.ok THEN e
        ELSE IF imageNumber < 0 \/ imageNumber >= Len(c.m_framedelays) THEN R(c, FALSE)
        ELSE IF imageNumber = c.m_currentimage_index
        THEN R([c EXCEPT !.m_parseState = "Success"], TRUE)
        ELSE IF ~w.ok THEN w
        ELSE R([k EXCEPT !.m_currentimage_index = imageNumber,
                         !.m_parseState = "Success"], TRUE)

\* jumpToImage that forgets to skip forward after rewinding
jumpToImage_noSkipAfterRewind(s, fl, f, imageNumber) ==
    LET e == ensureALLCounted(s, fl, f)
        c == e.h
        w == rewind(c, fl, f)
    IN  IF ~e.ok THEN e
        ELSE IF imageNumber < 0 \/ imageNumber >= Len(c.m_framedelays) THEN R(c, FALSE)
        ELSE IF imageNumber = c.m_currentimage_index
        THEN R([c EXCEPT !.m_parseState = "Success"], TRUE)
        ELSE IF imageNumber > c.m_currentimage_index
        THEN R([JxlDecoderSkipFrames(c, fl, imageNumber - c.m_currentimage_index)
                   EXCEPT !.m_currentimage_index = imageNumber,
                          !.m_parseState = "Success"], TRUE)
        ELSE IF ~w.ok THEN w
        ELSE R([w.h EXCEPT !.m_currentimage_index = imageNumber,
                           !.m_parseState = "Success"], TRUE)

\* QJpegXLHandler::jumpToImage
jumpToImage(s, fl, f, imageNumber) ==
    LET e == ensureALLCounted(s, fl, f)
        c == e.h
        w == rewind(c, fl, f)
        k == IF imageNumber > 0 THEN JxlDecoderSkipFrames(w.h, fl, imageNumber) ELSE w.h
    IN  IF ~e.ok THEN e
        ELSE IF imageNumber < 0 \/ imageNumber >= Len(c.m_framedelays) THEN R(c, FALSE)
        ELSE IF imageNumber = c.m_currentimage_index
        THEN R([c EXCEPT !.m_parseState = "Success"], TRUE)
        ELSE IF imageNumber > c.m_currentimage_index
        THEN R([JxlDecoderSkipFrames(c, fl, imageNumber - c.m_currentimage_index)
                   EXCEPT !.m_currentimage_index = imageNumber,
                          !.m_parseState = "Success"], TRUE)
        ELSE IF ~w.ok THEN w
        ELSE R([k EXCEPT !.m_currentimage_index = imageNumber,
                         !.m_parseState = "Success"], TRUE)

\* read without the cached-frame shortcut
read_alwaysDecode(s, fl, f) ==
    LET e == ensureALLCounted(s, fl, f)
        d == decode_one_frame(e.h, fl, f)
    IN  IF ~e.ok THEN e
        ELSE IF d.ok THEN R([d.h EXCEPT !.out_image = d.h.m_current_image], TRUE)
        ELSE d

\* QJpegXLHandler::read
read(s, fl, f) ==
    LET e == ensureALLCounted(s, fl, f)
        c == [e.h EXCEPT !.out_image = e.h.m_current_image]
        d == decode_one_frame(e.h, fl, f)
    IN  IF ~e.ok THEN e
        ELSE IF e.h.m_currentimage_index = e.h.m_previousimage_index
        THEN jumpToNextImage(c, fl, f)
        ELSE IF d.ok THEN R([d.h EXCEPT !.out_image = d.h.m_current_image], TRUE)
        ELSE d

\* canRead() that goes on saying true after the last frame
canRead_trueWhenFinished(s, fl) ==
    IF s.m_parseState = "NotParsed" /\ ~canReadDevice(DeviceOf(s, fl)).ok THEN FALSE
    ELSE s.m_parseState # "Error"

\* QJpegXLHandler::canRead() const
canRead(s, fl) ==
    IF s.m_parseState = "NotParsed" /\ ~canReadDevice(DeviceOf(s, fl)).ok THEN FALSE
    ELSE IF s.m_parseState # "Error" THEN s.m_parseState # "Finished"
    ELSE FALSE

\* QJpegXLHandler::imageCount; n is the returned count
imageCount(s, fl, f) ==
    LET p == ensureParsed(s, fl, f)
        e == ensureALLCounted(p.h, fl, f)
        cnt(x) == Len(x.m_framedelays)
    IN  IF ~p.ok THEN [h |-> p.h, n |-> 0]
        ELSE IF p.h.m_parseState = "BasicInfoParsed"
        THEN IF ~p.h.m_basicinfo.have_animation THEN [h |-> p.h, n |-> 1]
             ELSE IF ~e.ok THEN [h |-> e.h, n |-> 0]
             ELSE [h |-> e.h, n |-> cnt(e.h)]
        ELSE [h |-> p.h, n |-> cnt(p.h)]

\* QJpegXLHandler::currentImageNumber
currentImageNumber(s) ==
    IF s.m_parseState = "NotParsed" THEN -1
    ELSE IF s.m_parseState \in {"Error", "BasicInfoParsed"} \/ ~s.m_decoder THEN 0
    ELSE s.m_currentimage_index

\* nextImageDelay without the check for a single frame
nextImageDelay_noSingleFrameCheck(s, fl, f) ==
    LET e == ensureALLCounted(s, fl, f)
    IN  IF ~e.ok THEN [h |-> e.h, n |-> 0]
        ELSE [h |-> e.h, n |-> e.h.m_next_image_delay]

\* QJpegXLHandler::nextImageDelay; n is the returned delay
nextImageDelay(s, fl, f) ==
    LET e == ensureALLCounted(s, fl, f)
    IN  IF ~e.ok THEN [h |-> e.h, n |-> 0]
        ELSE IF Len(e.h.m_framedelays) < 2 THEN [h |-> e.h, n |-> 0]
        ELSE [h |-> e.h, n |-> e.h.m_next_image_delay]

\* QJpegXLHandler::loopCount; n is the returned count
loopCount(s, fl, f) ==
    LET p == ensureParsed(s, fl, f)
    IN  IF ~p.ok THEN [h |-> p.h, n |-> 0]
        ELSE IF p.h.m_basicinfo.have_animation
        THEN [h |-> p.h,
              n |-> IF p.h.m_basicinfo.num_loops > 0
                    THEN p.h.m_basicinfo.num_loops - 1 ELSE -1]
        ELSE [h |-> p.h, n |-> 0]

\* QJpegXLHandler::supportsOption
supportsOption(o) ==
    \/ o \in {"Quality", "Size", "Animation"}
    \/ JXL_QT_AUTOTRANSFORM /\ o = "ImageTransformation"

\* option(ImageTransformation): JxlOrientation code -> QImageIOHandler::Transformation
\* (-1: no branch matches, an invalid QVariant)
TransformationOf(orientation) ==
    CASE orientation = 1 -> 0     \* JXL_ORIENT_IDENTITY -> TransformationNone
      [] orientation = 2 -> 1     \* FLIP_HORIZONTAL -> TransformationMirror
      [] orientation = 3 -> 3     \* ROTATE_180 -> TransformationRotate180
      [] orientation = 4 -> 2     \* FLIP_VERTICAL -> TransformationFlip
      [] orientation = 5 -> 6     \* TRANSPOSE -> TransformationFlipAndRotate90
      [] orientation = 6 -> 4     \* ROTATE_90_CW -> TransformationRotate90
      [] orientation = 7 -> 5     \* ANTI_TRANSPOSE -> TransformationMirrorAndRotate90
      [] orientation = 8 -> 7     \* ROTATE_90_CCW -> TransformationRotate270
      [] OTHER -> -1

\* a QVariant: b is its validity (or its boolean value), n and m its numbers
Variant(b, n, m) == [b |-> b, n |-> n, m |-> m]
Invalid == Variant(FALSE, 0, 0)

\* QJpegXLHandler::option; v is the returned QVariant
option(s, fl, f, o) ==
    LET p == ensureParsed(s, fl, f)
        t == TransformationOf(p.h.m_basicinfo.orientation)
    IN  IF ~supportsOption(o) THEN [h |-> s, v |-> Invalid]
        ELSE IF o = "Quality" THEN [h |-> s, v |-> Variant(TRUE, s.m_quality, 0)]
        ELSE IF ~p.ok
        THEN IF JXL_QT_AUTOTRANSFORM /\ o = "ImageTransformation"
             THEN [h |-> p.h, v |-> Variant(TRUE, p.h.m_transformations, 0)]
             ELSE [h |-> p.h, v |-> Invalid]
        ELSE IF o = "Size"
        THEN [h |-> p.h, v |-> Variant(TRUE, p.h.m_basicinfo.xsize, p.h.m_basicinfo.ysize)]
        ELSE IF o = "Animation"
        THEN [h |-> p.h, v |-> Variant(p.h.m_basicinfo.have_animation, 0, 0)]
        ELSE IF JXL_QT_AUTOTRANSFORM /\ o = "ImageTransformation" /\ t >= 0
        THEN [h |-> p.h, v |-> Variant(TRUE, t, 0)]
        ELSE [h |-> p.h, v |-> Invalid]

\* setOption(Quality) replacing a negative quality by 0
setOption_clampToZero(s, o, value) ==
    IF o = "Quality"
    THEN [s EXCEPT !.m_quality = IF value > 100 THEN 100
                                 ELSE IF value < 0 THEN 0 ELSE value]
    ELSE IF JXL_QT_AUTOTRANSFORM /\ o = "ImageTransformation"
    THEN IF value # 0 /\ value > 0 /\ value < 8
         THEN [s EXCEPT !.m_transformations = value]
         ELSE s
    ELSE s

\* QJpegXLHandler::setOption
setOption(s, o, value) ==
    IF o = "Quality"
    THEN [s EXCEPT !.m_quality = IF value > 100 THEN 100
                                 ELSE IF value < 0 THEN DefaultQuality ELSE value]
    ELSE IF JXL_QT_AUTOTRANSFORM /\ o = "ImageTransformation"
    THEN IF value # 0 /\ value > 0 /\ value < 8
         THEN [s EXCEPT !.m_transformations = value]
         ELSE s
    ELSE s

\* the orientation of write with the two quarter turns exchanged
writeOrientation_swapRotations(t) ==
    CASE t = 1 -> 2
      [] t = 3 -> 3
      [] t = 2 -> 4
      [] t = 6 -> 5
      [] t = 4 -> 8
      [] t = 5 -> 7
      [] t = 7 -> 6
      [] OTHER -> 1

\* write: QImageIOHandler::Transformation -> JxlOrientation code of output_info
writeOrientation(t) ==
    CASE t = 1 -> 2     \* TransformationMirror -> JXL_ORIENT_FLIP_HORIZONTAL
      [] t = 3 -> 3     \* TransformationRotate180 -> ROTATE_180
      [] t = 2 -> 4     \* TransformationFlip -> FLIP_VERTICAL
      [] t = 6 -> 5     \* TransformationFlipAndRotate90 -> TRANSPOSE
      [] t = 4 -> 6     \* TransformationRotate90 -> ROTATE_90_CW
      [] t = 5 -> 7     \* TransformationMirrorAndRotate90 -> ANTI_TRANSPOSE
      [] t = 7 -> 8     \* TransformationRotate270 -> ROTATE_90_CCW
      [] OTHER -> 1     \* JXL_ORIENT_IDENTITY

\* the image handed to write.  packing says how write hands the pixels to the
\* encoder: "direct" (QImage's data), "RGBX32FP" and "RGBX16" (packed into a
\* buffer of its own, RGBX -> RGB), "CMYK" (split into two planes)
Image(valid, width, height) ==
    [valid |-> valid, width |-> width, height |-> height, packing |-> "direct"]

Packings == {"direct", "RGBX32FP", "RGBX16", "CMYK"}

Packed(img, packing) == [img EXCEPT !.packing = packing]

\* The calls of write that can fail.
\*   "SetParallelRunner"  JxlEncoderSetParallelRunner, with more than one thread
\*   "encode"             a call of the encoder after output_info.orientation
\*                        is chosen and up to the frame, an empty CMYK profile,
\*                        a failed conversion of the image
\*   "malloc"             malloc of the buffer the pixels are packed into
\*   "output"             JxlEncoderProcessOutput
\*   "deviceWrite"        device()->write, or nothing to write
WriteFailPoints ==
    {"none", "JxlEncoderCreate", "SetParallelRunner", "encode", "malloc",
     "output", "deviceWrite"}

\* what write hands back: orientation is output_info.orientation, 0 when write
\* gave up before choosing it
W(s, ok, orientation) == [h |-> s, ok |-> ok, orientation |-> orientation]

\* write: if (runner) JxlThreadParallelRunnerDestroy(runner); JxlEncoderDestroy(encoder)
destroyEncoder(s) ==
    [s EXCEPT !.destroyed = (IF s.runner_created THEN <<"runner">> ELSE <<>>)
                              \o <<"encoder">>]

\* write, from the clamp of the quality on: s holds the encoder, o is
\* output_info.orientation
encodeFrame(s, img, f, o) ==
    IF f = "encode" THEN W(destroyEncoder(s), FALSE, o)
    ELSE IF f = "malloc" /\ img.packing = "CMYK" THEN W(destroyEncoder(s), FALSE, o)
    \* the two packing branches return at once
    ELSE IF f = "malloc" /\ img.packing \in {"RGBX32FP", "RGBX16"} THEN W(s, FALSE, o)
    ELSE IF f = "output" THEN W(destroyEncoder(s), FALSE, o)
    ELSE IF f = "deviceWrite" THEN W(destroyEncoder(s), FALSE, o)
    ELSE W([destroyEncoder(s) EXCEPT !.written = TRUE], TRUE, o)

\* write, the clamp of the stored quality
clampQuality(s) ==
    [s EXCEPT !.m_quality = IF s.m_quality > 100 THEN 100
                            ELSE IF s.m_quality < 0 THEN DefaultQuality
                            ELSE s.m_quality]

\* write, from JxlEncoderCreate on
encodeImage(s, fl, img, f) ==
    LET se == [s EXCEPT !.encoder_created = TRUE]
        sr == [se EXCEPT !.runner_created = TRUE]
    IN  IF f = "JxlEncoderCreate" THEN W(s, FALSE, 0)
        ELSE IF fl.cores > 1
        THEN IF f = "SetParallelRunner"
             THEN W([sr EXCEPT !.destroyed = <<"runner", "encoder">>], FALSE, 0)
             ELSE encodeFrame(clampQuality(sr), img, f,
                              writeOrientation(clampQuality(sr).m_transformations))
        ELSE encodeFrame(clampQuality(se), img, f,
                         writeOrientation(clampQuality(se).m_transformations))

\* write without the limit on the number of pixels
write_noPixelLimit(s, fl, img, f) ==
    IF ~img.valid THEN W(s, FALSE, 0)
    ELSE IF img.width = 0 \/ img.height = 0 THEN W(s, FALSE, 0)
    ELSE IF img.width > MAX_IMAGE_WIDTH \/ img.height > MAX_IMAGE_HEIGHT
    THEN W(s, FALSE, 0)
    ELSE encodeImage(s, fl, img, f)

\* QJpegXLHandler::write
write(s, fl, img, f) ==
    IF ~img.valid THEN W(s, FALSE, 0)
    ELSE IF img.width = 0 \/ img.height = 0 THEN W(s, FALSE, 0)
    ELSE IF img.width > MAX_IMAGE_WIDTH \/ img.height > MAX_IMAGE_HEIGHT
    THEN W(s, FALSE, 0)
    ELSE IF MAX_IMAGE_PIXELS # 0 /\ img.width * img.height > MAX_IMAGE_PIXELS
    THEN W(s, FALSE, 0)
    ELSE encodeImage(s, fl, img, f)

\* a destructor that forgets the parallel runner
destroy_leakRunner(s) ==
    IF s.m_decoder
    THEN [s EXCEPT !.decoders_destroyed = s.decoders_destroyed + 1,
                   !.destroyed = <<"m_decoder">>]
    ELSE s

\* QJpegXLHandler::~QJpegXLHandler
destroy(s) ==
    LET s1 == IF s.m_runner
              THEN [s EXCEPT !.runners_destroyed = s.runners_destroyed + 1,
                             !.destroyed = Append(s.destroyed, "m_runner")]
              ELSE s
    IN  IF s1.m_decoder
        THEN [s1 EXCEPT !.decoders_destroyed = s1.decoders_destroyed + 1,
                        !.destroyed = Append(s1.destroyed, "m_decoder")]
        ELSE s1

\* ------------------------------------------------------------ the machine

Options == {"Quality", "Size", "Animation", "ImageTransformation", "Gamma"}
QualityValues == {-1, 101}
TransformationValues == {0, 3, 8}
ImageNumbers == -1..MaxFrames

Init ==
    /\ file \in Files
    /\ h = NewHandler
    /\ pre = NewHandler
    /\ op = [name |-> "new", arg |-> 0, opt |-> ""]
    /\ ret = Invalid
    /\ alive = TRUE

\* one call of the host: the operation runs from Begin(h) to its result
Call(name, arg, opt, after, result) ==
    /\ alive
    /\ pre' = Begin(h)
    /\ h' = after
    /\ op' = [name |-> name, arg |-> arg, opt |-> opt]
    /\ ret' = result
    /\ UNCHANGED <<file, alive>>

CanRead ==
    Call("canRead", 0, "", Begin(h), Variant(canRead(Begin(h), file), 0, 0))

Read ==
    \E f \in FailPoints :
        LET r == read(Begin(h), file, f)
        IN  Call("read", 0, "", r.h, Variant(r.ok, r.h.out_image, 0))

JumpToImage ==
    \E f \in CountFailPoints, n \in ImageNumbers :
        LET r == jumpToImage(Begin(h), file, f, n)
        IN  Call("jumpToImage", n, "", r.h, Variant(r.ok, 0, 0))

JumpToNextImage ==
    \E f \in CountFailPoints :
        LET r == jumpToNextImage(Begin(h), file, f)
        IN  Call("jumpToNextImage", 0, "", r.h, Variant(r.ok, 0, 0))

ImageCount ==
    \E f \in CountFailPoints :
        LET r == imageCount(Begin(h), file, f)
        IN  Call("imageCount", 0, "", r.h, Variant(TRUE, r.n, 0))

NextImageDelay ==
    \E f \in CountFailPoints :
        LET r == nextImageDelay(Begin(h), file, f)
        IN  Call("nextImageDelay", 0, "", r.h, Variant(TRUE, r.n, 0))

CurrentImageNumber ==
    Call("currentImageNumber", 0, "", Begin(h),
         Variant(TRUE, currentImageNumber(Begin(h)), 0))

LoopCount ==
    \E f \in ParseFailPoints :
        LET r == loopCount(Begin(h), file, f)
        IN  Call("loopCount", 0, "", r.h, Variant(TRUE, r.n, 0))

Option ==
    \E f \in ParseFailPoints, o \in Options :
        LET r == option(Begin(h), file, f, o)
        IN  Call("option", 0, o, r.h, r.v)

SetOption ==
    \/ \E v \in QualityValues :
           Call("setOption", v, "Quality", setOption(Begin(h), "Quality", v), Invalid)
    \/ \E v \in TransformationValues :
           Call("setOption", v, "ImageTransformation",
                setOption(Begin(h), "ImageTransformation", v), Invalid)

Destroy ==
    /\ alive
    /\ alive' = FALSE
    /\ pre' = Begin(h)
    /\ h' = destroy(Begin(h))
    /\ op' = [name |-> "destroy", arg |-> 0, opt |-> ""]
    /\ ret' = Invalid
    /\ UNCHANGED file

Next ==
    \/ CanRead
    \/ Read
    \/ JumpToImage
    \/ JumpToNextImage
    \/ ImageCount
    \/ NextImageDelay
    \/ CurrentImageNumber
    \/ LoopCount
    \/ Option
    \/ SetOption
    \/ Destroy

Spec == Init /\ [][Next]_vars

\* ------------------------------------------- the options and the encoder

\* a handler used to set and query options, to write an image and to probe a
\* device
WriteQualityValues == {-2147483647, -1, 0, 50, 100, 101, 2147483647}
WriteTransformationValues == -1..8
StoredOptions == {"Quality", "ImageTransformation"}

Images ==
    { Image(FALSE, 0, 0), Image(TRUE, 0, 2), Image(TRUE, 4, 0),
      Image(TRUE, MAX_IMAGE_WIDTH + 1, 2), Image(TRUE, 4, MAX_IMAGE_HEIGHT + 1),
      Image(TRUE, WideDims.xsize, WideDims.ysize) }
    \cup { Packed(Image(TRUE, GoodDims.xsize, GoodDims.ysize), p) : p \in Packings }

WriteFiles ==
    { File(0, "NOT_ENOUGH_BYTES", GoodDims, FALSE, <<>>, 0, FALSE, FALSE, 0, 1, 1),
      File(8, "CODESTREAM", GoodDims, FALSE, <<>>, 0, FALSE, FALSE, 0, 1, 1),
      File(40, "INVALID", GoodDims, FALSE, <<>>, 0, FALSE, FALSE, 0, 1, 1),
      File(40, "CODESTREAM", GoodDims, FALSE, <<>>, 0, FALSE, FALSE, 0, 3, 1),
      File(40, "CONTAINER", GoodDims, FALSE, <<>>, 0, FALSE, TRUE, 0, 6, 8) }

InitWrite ==
    /\ file \in WriteFiles
    /\ h = NewHandler
    /\ pre = NewHandler
    /\ op = [name |-> "new", arg |-> 0, opt |-> ""]
    /\ ret = Invalid
    /\ alive = TRUE

SetStoredOption ==
    \/ \E v \in WriteQualityValues :
           Call("setOption", v, "Quality", setOption(Begin(h), "Quality", v), Invalid)
    \/ \E v \in WriteTransformationValues :
           Call("setOption", v, "ImageTransformation",
                setOption(Begin(h), "ImageTransformation", v), Invalid)

StoredOption ==
    \E f \in ParseFailPoints, o \in StoredOptions :
        LET r == option(Begin(h), file, f, o)
        IN  Call("option", 0, o, r.h, r.v)

Write ==
    \E img \in Images, f \in WriteFailPoints :
        LET r == write(Begin(h), file, img, f)
        IN  Call("write", img, "", r.h, Variant(r.ok, r.orientation, 0))

\* the static canRead(QIODevice *), asked about no device or the handler's
Probe ==
    \/ LET r == canReadDevice(NullDevice)
       IN  Call("canReadDevice", 0, "null", Begin(h), Variant(r.ok, r.dev.pos, 0))
    \/ LET r == canReadDevice(DeviceOf(Begin(h), file))
       IN  Call("canReadDevice", 0, "device",
                [Begin(h) EXCEPT !.device_pos = r.dev.pos],
                Variant(r.ok, r.dev.pos, 0))

NextWrite ==
    \/ SetStoredOption
    \/ StoredOption
    \/ Write
    \/ Probe

SpecWrite == InitWrite /\ [][NextWrite]_vars

\* ------------------------------------------------------ the Exif metadata

\* a handler reading a container whose Exif box has known contents
InitExif ==
    /\ file \in ExifFiles
    /\ h = NewHandler
    /\ pre = NewHandler
    /\ op = [name |-> "new", arg |-> 0, opt |-> ""]
    /\ ret = Invalid
    /\ alive = TRUE

NextExif ==
    \/ CanRead
    \/ Read

SpecExif == InitExif /\ [][NextExif]_vars

\* --------------------------------------------------------- the frame delays

\* a handler counting the frames of an animation
InitDelay ==
    /\ file \in DelayFiles
    /\ h = NewHandler
    /\ pre = NewHandler
    /\ op = [name |-> "new", arg |-> 0, opt |-> ""]
    /\ ret = Invalid
    /\ alive = TRUE

NextDelay ==
    \/ ImageCount
    \/ NextImageDelay

SpecDelay == InitDelay /\ [][NextDelay]_vars

\* ------------------------------------------------------ the colour channels

\* a handler reading an input with extra channels
InitColor ==
    /\ file \in ColorFiles
    /\ h = NewHandler
    /\ pre = NewHandler
    /\ op = [name |-> "new", arg |-> 0, opt |-> ""]
    /\ ret = Invalid
    /\ alive = TRUE

ReadColor ==
    \E f \in ColorFailPoints :
        LET r == read(Begin(h), file, f)
        IN  Call("read", 0, "", r.h, Variant(r.ok, r.h.out_image, 0))

NextColor ==
    \/ CanRead
    \/ ReadColor

SpecColor == InitColor /\ [][NextColor]_vars

\* ------------------------------------------------------- the CMYK channels

\* A CMYK8 image (QImage::Format_CMYK8888): one scan line per row, four bytes
\* per pixel, C M Y K.
CmykImage(width, height, lines) ==
    [width |-> width, height |-> height, lines |-> lines]

\* the pixels tried: every mix of empty and full channels, and three others
CmykPixels ==
    [1..4 -> {0, 255}]
    \cup { <<0, 100, 255, 100>>, <<255, 0, 100, 0>>, <<100, 100, 100, 100>> }

\* the scan lines of w pixels
CmykScanLines(w) ==
    { [i \in 1..(4 * w) |-> ps[(i - 1) \div 4 + 1][((i - 1) % 4) + 1]] :
        ps \in [1..w -> CmykPixels] }

\* the images of that width and height
CmykImagesOf(w, hgt) ==
    { CmykImage(w, hgt, l) : l \in [1..hgt -> CmykScanLines(w)] }

CmykImages ==
    UNION { CmykImagesOf(d[1], d[2]) :
              d \in { e \in (1..MaxCmykPixels) \X (1..MaxCmykPixels) :
                        e[1] * e[2] <= MaxCmykPixels } }

\* a value stored in a uchar
Uchar(v) == v % 256

\* write, the CMYK split, with the K plane left as it is in the image
cmykSplit_keepK(image) ==
    [ pixels_cmy |->
        [ k \in 1..(3 * image.width * image.height) |->
            LET p == (k - 1) \div 3
                c == (k - 1) % 3
            IN  Uchar(255 - image.lines[p \div image.width + 1]
                                       [4 * (p % image.width) + c + 1]) ],
      pixels_black |->
        [ p \in 1..(image.width * image.height) |->
            Uchar(image.lines[(p - 1) \div image.width + 1]
                             [4 * ((p - 1) % image.width) + 4]) ] ]

\* write, the CMYK split: the rows from the top, the pixels of a row from the
\* left; C, M and Y go to pixels_cmy and K to pixels_black, each as 255 - v
cmykSplit(image) ==
    [ pixels_cmy |->
        [ k \in 1..(3 * image.width * image.height) |->
            LET p == (k - 1) \div 3
                c == (k - 1) % 3
            IN  Uchar(255 - image.lines[p \div image.width + 1]
                                       [4 * (p % image.width) + c + 1]) ],
      pixels_black |->
        [ p \in 1..(image.width * image.height) |->
            Uchar(255 - image.lines[(p - 1) \div image.width + 1]
                                   [4 * ((p - 1) % image.width) + 4]) ] ]

\* decode_one_frame, CMYK without alpha: the scan lines of m_current_image
\* filled from pixels_cmy and pixels_black
cmykInterleave(width, height, pixels_cmy, pixels_black) ==
    [ y \in 1..height |->
        [ i \in 1..(4 * width) |->
            LET p == (y - 1) * width + (i - 1) \div 4
                c == (i - 1) % 4
            IN  IF c < 3 THEN Uchar(255 - pixels_cmy[3 * p + c + 1])
                ELSE Uchar(255 - pixels_black[p + 1]) ] ]

\* decode_one_frame, CMYK with alpha: the scan lines of tmp_cmyk_image
cmykInterleaveAlpha(width, height, pixels_cmy, pixels_black) ==
    [ y \in 1..height |->
        [ i \in 1..(4 * width) |->
            LET p == (y - 1) * width + (i - 1) \div 4
                c == (i - 1) % 4
            IN  IF c < 3 THEN Uchar(255 - pixels_cmy[3 * p + c + 1])
                ELSE Uchar(255 - pixels_black[p + 1]) ] ]

\* An image on its way through write and decode_one_frame.  The frame is
\* written lossless, so the decoder fills pixels_cmy and pixels_black with
\* the bytes the encoder was given.
InitCmyk ==
    /\ file \in CmykImages
    /\ h = [stage |-> "image", pixels_cmy |-> <<>>, pixels_black |-> <<>>,
            lines |-> <<>>]
    /\ pre = h
    /\ op = [name |-> "new", arg |-> 0, opt |-> ""]
    /\ ret = Invalid
    /\ alive = TRUE

CmykSplit ==
    /\ h.stage = "image"
    /\ pre' = h
    /\ h' = [h EXCEPT !.stage = "planes",
                      !.pixels_cmy = cmykSplit(file).pixels_cmy,
                      !.pixels_black = cmykSplit(file).pixels_black]
    /\ op' = [name |-> "write", arg |-> 0, opt |-> "CMYK"]
    /\ ret' = Variant(TRUE, 0, 0)
    /\ UNCHANGED <<file, alive>>

CmykInterleave ==
    /\ h.stage = "planes"
    /\ pre' = h
    /\ h' = [h EXCEPT !.stage = "decoded",
                      !.lines = cmykInterleave(file.width, file.height,
                                               h.pixels_cmy, h.pixels_black)]
    /\ op' = [name |-> "decode_one_frame", arg |-> 0, opt |-> "CMYK"]
    /\ ret' = Variant(TRUE, 0, 0)
    /\ UNCHANGED <<file, alive>>

CmykInterleaveAlpha ==
    /\ h.stage = "planes"
    /\ pre' = h
    /\ h' = [h EXCEPT !.stage = "decoded",
                      !.lines = cmykInterleaveAlpha(file.width, file.height,
                                                    h.pixels_cmy, h.pixels_black)]
    /\ op' = [name |-> "decode_one_frame", arg |-> 0, opt |-> "CMYK+alpha"]
    /\ ret' = Variant(TRUE, 0, 0)
    /\ UNCHANGED <<file, alive>>

NextCmyk ==
    \/ CmykSplit
    \/ CmykInterleave
    \/ CmykInterleaveAlpha

SpecCmyk == InitCmyk /\ [][NextCmyk]_vars

\* ------------------------------------------------- the pixel format planner
\* countALLFrames choosing the layout of the decoder's output from the basic
\* info, in a build that preserves HDR (JXL_HDR_PRESERVATION_DISABLED is not
\* defined).

\* the planner with is_gray said by the number of colour channels alone
planPixelFormat_grayByChannels(info) ==
    LET is_gray == info.num_color_channels = 1
        loadalpha == info.alpha_bits > 0
        is_fp == info.exponent_bits_per_sample > 0 /\ info.num_color_channels = 3
        plan(n, t, in, out) ==
            [ num_channels |-> n, data_type |-> t,
              m_input_image_format |-> in, m_target_image_format |-> out ]
    IN  IF info.bits_per_sample > 8
        THEN IF is_gray THEN plan(1, "UINT16", "Grayscale16", "Grayscale16")
             ELSE IF info.bits_per_sample > 16 /\ is_fp
             THEN plan(4, "FLOAT", "RGBA32FPx4",
                       IF loadalpha THEN "RGBA32FPx4" ELSE "RGBX32FPx4")
             ELSE IF is_fp
             THEN plan(4, "FLOAT16", "RGBA16FPx4",
                       IF loadalpha THEN "RGBA16FPx4" ELSE "RGBX16FPx4")
             ELSE plan(4, "UINT16", "RGBA64", IF loadalpha THEN "RGBA64" ELSE "RGBX64")
        ELSE IF is_gray THEN plan(1, "UINT8", "Grayscale8", "Grayscale8")
             ELSE IF loadalpha THEN plan(4, "UINT8", "RGBA8888", "ARGB32")
             ELSE plan(3, "UINT8", "RGB888", "RGB32")

\* countALLFrames: m_input_pixel_format, m_input_image_format and
\* m_target_image_format
planPixelFormat(info) ==
    LET is_gray == info.num_color_channels = 1 /\ info.alpha_bits = 0
        loadalpha == info.alpha_bits > 0
        is_fp == info.exponent_bits_per_sample > 0 /\ info.num_color_channels = 3
        plan(n, t, in, out) ==
            [ num_channels |-> n, data_type |-> t,
              m_input_image_format |-> in, m_target_image_format |-> out ]
    IN  IF info.bits_per_sample > 8
        THEN IF is_gray THEN plan(1, "UINT16", "Grayscale16", "Grayscale16")
             ELSE IF info.bits_per_sample > 16 /\ is_fp
             THEN plan(4, "FLOAT", "RGBA32FPx4",
                       IF loadalpha THEN "RGBA32FPx4" ELSE "RGBX32FPx4")
             ELSE IF is_fp
             THEN plan(4, "FLOAT16", "RGBA16FPx4",
                       IF loadalpha THEN "RGBA16FPx4" ELSE "RGBX16FPx4")
             ELSE plan(4, "UINT16", "RGBA64", IF loadalpha THEN "RGBA64" ELSE "RGBX64")
        ELSE IF is_gray THEN plan(1, "UINT8", "Grayscale8", "Grayscale8")
             ELSE IF loadalpha THEN plan(4, "UINT8", "RGBA8888", "ARGB32")
             ELSE plan(3, "UINT8", "RGB888", "RGB32")

\* what the decoder says of the samples of an image
BasicInfos ==
    [ bits_per_sample : {1, 8, 9, 10, 12, 16, 17, 32},
      exponent_bits_per_sample : {0, 5, 8},
      num_color_channels : {1, 3},
      alpha_bits : {0, 8, 16} ]

\* the handler as constructed: no plan, the two formats Format_Invalid
InitPlan ==
    /\ file \in BasicInfos
    /\ h = [ planned |-> FALSE, num_channels |-> 0, data_type |-> "",
             m_input_image_format |-> "Invalid", m_target_image_format |-> "Invalid" ]
    /\ pre = h
    /\ op = [name |-> "new", arg |-> 0, opt |-> ""]
    /\ ret = Invalid
    /\ alive = TRUE

PlanPixelFormat ==
    /\ pre' = h
    /\ h' = [ planned |-> TRUE,
              num_channels |-> planPixelFormat(file).num_channels,
              data_type |-> planPixelFormat(file).data_type,
              m_input_image_format |-> planPixelFormat(file).m_input_image_format,
              m_target_image_format |-> planPixelFormat(file).m_target_image_format ]
    /\ op' = [name |-> "countALLFrames", arg |-> 0, opt |-> ""]
    /\ ret' = Variant(TRUE, 0, 0)
    /\ UNCHANGED <<file, alive>>

SpecPlan == InitPlan /\ [][PlanPixelFormat]_vars

\* ------------------------------------------------------------- the encoder
\* QJpegXLHandler::write from JxlEncoderCreate on, one step for each part of
\* it: the colour description, the metadata boxes, the frame, one turn of the
\* output loop, the write to the device.  The input is the image as write
\* sees it after the conversion to tmpimage; the handler records the encoder
\* calls in their order.  The thread runner is left out: it is destroyed
\* wherever the encoder is.

\* a run of steps of which step f fails: the calls up to the failing one are
\* made, then write returns false, after JxlEncoderDestroy where the code
\* cleans up.  "iccProfile", "convertToFormat" and "malloc" are the steps of
\* write that can fail and are no calls of the encoder.
encoderCalls(s, steps, f, cleanup) ==
    LET bad == { i \in 1..Len(steps) : steps[i] = f }
        made == IF bad = {} THEN steps ELSE SubSeq(steps, 1, First(bad))
        called == SelectSeq(made, LAMBDA n : n \notin {"iccProfile", "convertToFormat", "malloc"})
    IN  IF bad = {}
        THEN [ h |-> [s EXCEPT !.calls = @ \o called], ok |-> TRUE ]
        ELSE [ h |-> [s EXCEPT !.calls = IF cleanup
                                         THEN @ \o called \o <<"JxlEncoderDestroy">>
                                         ELSE @ \o called,
                               !.created = ~cleanup,
                               !.pc = "done"],
               ok |-> FALSE ]

colorProfile_byPrimariesOnly(job) ==
    LET named == job.primaries \in {"SRgb", "AdobeRgb", "DciP3D65", "ProPhotoRgb", "Bt2020"}
        iccprofile == IF job.quality = 100 THEN job.valid
                      ELSE job.valid /\ ~named /\ ~(job.is_gray /\ ~job.white_null)
    IN  IF iccprofile THEN "JxlEncoderSetICCProfile" ELSE "JxlEncoderSetColorEncoding"

\* write, RGB and gray: the colour description handed to the encoder, the ICC
\* profile when iccprofile.size() > 0 and the structured color_profile
\* otherwise.  iccProfile() of a valid colour space is taken to be non-empty,
\* that of an invalid one is empty.
colorProfile(job) ==
    LET named == job.primaries \in
                     {"SRgb", "AdobeRgb", "DciP3D65", "ProPhotoRgb"}
                         \cup (IF QT_HAS_CMYK THEN {"Bt2020"} ELSE {})
        byPrimaries == IF named THEN FALSE
                       ELSE IF job.is_gray /\ ~job.white_null THEN FALSE
                       ELSE TRUE
        byTransfer == CASE job.transfer = "Linear" -> FALSE
                        [] job.transfer = "Gamma" -> ~job.gamma_positive
                        [] job.transfer = "SRgb" -> FALSE
                        [] OTHER -> TRUE
        iccprofile == IF job.quality = 100 THEN job.valid
                      ELSE IF job.valid
                           THEN IF byPrimaries THEN TRUE ELSE byTransfer
                           ELSE FALSE
    IN  IF iccprofile THEN "JxlEncoderSetICCProfile" ELSE "JxlEncoderSetColorEncoding"

addBoxes_closeFirst(s, job, f) ==
    LET steps == <<"JxlEncoderCloseBoxes">>
                     \o (IF job.exif # <<>> THEN <<"JxlEncoderAddBox Exif">> ELSE <<>>)
                     \o (IF job.xmp # <<>> THEN <<"JxlEncoderAddBox xml ">> ELSE <<>>)
        r == encoderCalls(s, steps, f, TRUE)
    IN  [ h |-> [r.h EXCEPT !.boxes =
                     (IF job.exif # <<>>
                      THEN << [type |-> "Exif", data |-> <<0, 0, 0, 0>> \o job.exif] >>
                      ELSE <<>>)
                     \o (IF job.xmp # <<>> /\ (job.exif = <<>> \/ f # "JxlEncoderAddBox Exif")
                         THEN << [type |-> "xml ", data |-> job.xmp] >>
                         ELSE <<>>)],
          ok |-> r.ok ]

\* write: the Exif box, its data behind four zero bytes, the XMP box, each
\* when there is data for it, then JxlEncoderCloseBoxes
addBoxes(s, job, f) ==
    LET steps == (IF job.exif # <<>> THEN <<"JxlEncoderAddBox Exif">> ELSE <<>>)
                     \o (IF job.xmp # <<>> THEN <<"JxlEncoderAddBox xml ">> ELSE <<>>)
                     \o <<"JxlEncoderCloseBoxes">>
        r == encoderCalls(s, steps, f, TRUE)
    IN  [ h |-> [r.h EXCEPT !.boxes =
                     (IF job.exif # <<>>
                      THEN << [type |-> "Exif", data |-> <<0, 0, 0, 0>> \o job.exif] >>
                      ELSE <<>>)
                     \o (IF job.xmp # <<>> /\ (job.exif = <<>> \/ f # "JxlEncoderAddBox Exif")
                         THEN << [type |-> "xml ", data |-> job.xmp] >>
                         ELSE <<>>)],
          ok |-> r.ok ]

processOutput_restartAtZero(s, status, n) ==
    LET chunk == [at |-> 0, n |-> n, status |-> status]
        t == [s EXCEPT !.calls = Append(@, "JxlEncoderProcessOutput"),
                       !.kept = Append(@, chunk)]
    IN  CASE status = "NEED_MORE_OUTPUT" ->
                 [t EXCEPT !.offset = 0, !.capacity = 2 * @]
          [] status = "ERROR" ->
                 [t EXCEPT !.calls = Append(@, "JxlEncoderDestroy"),
                           !.created = FALSE, !.pc = "done"]
          [] OTHER ->
                 [t EXCEPT !.calls = Append(@, "JxlEncoderDestroy"),
                           !.created = FALSE, !.offset = n,
                           !.capacity = n, !.pc = "device"]

\* write: one turn of the output loop.  JxlEncoderProcessOutput is given
\* next_out = compressed.data() + offset and avail_out = compressed.size() -
\* offset, puts n bytes there and answers with status; kept is the list of
\* the pieces of output with the place each was put at and the answer.  capacity is
\* compressed.size().
processOutput(s, status, n) ==
    LET next_out == s.offset + n
        chunk == [at |-> s.offset, n |-> n, status |-> status]
        t == [s EXCEPT !.calls = Append(@, "JxlEncoderProcessOutput"),
                       !.kept = Append(@, chunk)]
    IN  CASE status = "NEED_MORE_OUTPUT" ->
                 [t EXCEPT !.offset = next_out, !.capacity = 2 * @]
          [] status = "ERROR" ->
                 [t EXCEPT !.calls = Append(@, "JxlEncoderDestroy"),
                           !.created = FALSE, !.pc = "done"]
          [] OTHER ->
                 [t EXCEPT !.calls = Append(@, "JxlEncoderDestroy"),
                           !.created = FALSE, !.offset = next_out,
                           !.capacity = next_out, !.pc = "device"]

\* the images handed to write: every colour description of an RGB or gray
\* image without metadata, and sRGB and CMYK images with and without Exif
\* and XMP data
EncodeJobs ==
    { j \in [ cmyk : {FALSE}, icc_empty : {FALSE}, quality : {50, 100},
              valid : BOOLEAN, is_gray : BOOLEAN,
              primaries : {"SRgb", "AdobeRgb", "DciP3D65", "ProPhotoRgb", "Bt2020", "Custom"},
              transfer : {"Linear", "Gamma", "SRgb", "ProPhotoRgb", "Custom"},
              gamma_positive : BOOLEAN, white_null : BOOLEAN,
              exif : {<<>>}, xmp : {<<>>}, packed : {FALSE} ] :
          /\ j.transfer # "Gamma" => j.gamma_positive
          /\ ~j.is_gray => j.white_null
          /\ ~j.valid => j.primaries = "Custom" /\ j.transfer = "Custom" }
    \cup
    { j \in [ cmyk : BOOLEAN, icc_empty : BOOLEAN, quality : {90},
              valid : {TRUE}, is_gray : {FALSE},
              primaries : {"SRgb"}, transfer : {"SRgb"},
              gamma_positive : {TRUE}, white_null : {TRUE},
              exif : {<<>>, <<77, 77>>}, xmp : {<<>>, <<60>>}, packed : BOOLEAN ] :
          /\ j.icc_empty => j.cmyk
          /\ j.packed => ~j.cmyk }

\* write has not created the encoder yet
InitEncode ==
    /\ file \in EncodeJobs
    /\ h = [ pc |-> "start", calls |-> <<>>, created |-> FALSE, boxes |-> <<>>,
             capacity |-> 0, offset |-> 0, kept |-> <<>>,
             write_calls |-> 0, write_status |-> 0 ]
    /\ pre = h
    /\ op = [name |-> "new", arg |-> 0, opt |-> ""]
    /\ ret = Invalid
    /\ alive = TRUE

\* write: JxlEncoderCreate to the colour description
WriteColor ==
    /\ h.pc = "start"
    /\ \E f \in {"none", "convertToFormat", "JxlEncoderSetBasicInfo",
                 "JxlEncoderSetExtraChannelInfo", "JxlEncoderSetICCProfile",
                 "JxlEncoderSetColorEncoding"} :
          LET s == [h EXCEPT !.created = TRUE,
                             !.calls = <<"JxlEncoderCreate", "JxlEncoderUseContainer",
                                         "JxlEncoderUseBoxes">>]
              steps == IF file.cmyk
                       THEN <<"iccProfile", "JxlEncoderSetBasicInfo",
                              "JxlEncoderSetExtraChannelInfo", "JxlEncoderSetICCProfile">>
                       ELSE <<"convertToFormat", "JxlEncoderSetBasicInfo",
                              colorProfile(file)>>
              r == encoderCalls(s, steps,
                                IF file.cmyk /\ file.icc_empty THEN "iccProfile" ELSE f,
                                TRUE)
          IN  /\ h' = IF r.ok THEN [r.h EXCEPT !.pc = "boxes"] ELSE r.h
              /\ ret' = IF r.ok THEN ret ELSE Variant(FALSE, 0, 0)
    /\ pre' = h
    /\ op' = [name |-> "write", arg |-> 0, opt |-> ""]
    /\ UNCHANGED <<file, alive>>

\* write: the metadata boxes
WriteBoxes ==
    /\ h.pc = "boxes"
    /\ \E f \in {"none", "JxlEncoderAddBox Exif", "JxlEncoderAddBox xml "} :
          LET r == addBoxes(h, file, f)
          IN  /\ h' = IF r.ok THEN [r.h EXCEPT !.pc = "frame"] ELSE r.h
              /\ ret' = IF r.ok THEN ret ELSE Variant(FALSE, 0, 0)
    /\ pre' = h
    /\ op' = [name |-> "write", arg |-> 0, opt |-> ""]
    /\ UNCHANGED <<file, alive>>

\* write: the frame settings, the pixels, JxlEncoderCloseFrames and the
\* first size of the output buffer.  A failed malloc of the packed pixels of
\* an RGB image returns without JxlEncoderDestroy.
WriteFrame ==
    /\ h.pc = "frame"
    /\ \E f \in {"none", "malloc", "JxlEncoderAddImageFrame",
                 "JxlEncoderSetExtraChannelBuffer"} :
          LET settings == <<"JxlEncoderFrameSettingsCreate", "JxlEncoderSetFrameDistance",
                            "JxlEncoderSetFrameLossless">>
              steps == IF file.cmyk
                       THEN <<"malloc">> \o settings
                                \o <<"JxlEncoderAddImageFrame",
                                     "JxlEncoderSetExtraChannelBuffer",
                                     "JxlEncoderCloseFrames">>
                       ELSE settings
                                \o (IF file.packed THEN <<"malloc">> ELSE <<>>)
                                \o <<"JxlEncoderAddImageFrame", "JxlEncoderCloseFrames">>
              r == encoderCalls(h, steps, f, file.cmyk \/ f # "malloc")
          IN  /\ h' = IF r.ok
                      THEN [r.h EXCEPT !.pc = "output", !.capacity = OutputChunk,
                                       !.offset = 0]
                      ELSE r.h
              /\ ret' = IF r.ok THEN ret ELSE Variant(FALSE, 0, 0)
    /\ pre' = h
    /\ op' = [name |-> "write", arg |-> 0, opt |-> ""]
    /\ UNCHANGED <<file, alive>>

\* write: one turn of the do-while loop; the encoder asks for more output at
\* most MaxRounds times
WriteOutput ==
    /\ h.pc = "output"
    /\ \E status \in {"NEED_MORE_OUTPUT", "SUCCESS", "ERROR"} :
          \E n \in {0, 1, h.capacity - h.offset} :
              /\ status = "NEED_MORE_OUTPUT" => Len(h.kept) < MaxRounds
              /\ h' = processOutput(h, status, n)
              /\ ret' = IF status = "ERROR" THEN Variant(FALSE, 0, 0) ELSE ret
    /\ pre' = h
    /\ op' = [name |-> "write", arg |-> 0, opt |-> ""]
    /\ UNCHANGED <<file, alive>>

\* write: the compressed bytes go to the device; write_status is what
\* QIODevice::write returns
WriteDevice ==
    /\ h.pc = "device"
    /\ IF h.capacity > 0
       THEN \E write_status \in {-1, 0, h.capacity - 1, h.capacity} :
               /\ h' = [h EXCEPT !.pc = "done", !.write_calls = @ + 1,
                                 !.write_status = write_status]
               /\ ret' = Variant(write_status > 0, 0, 0)
       ELSE /\ h' = [h EXCEPT !.pc = "done"]
            /\ ret' = Variant(FALSE, 0, 0)
    /\ pre' = h
    /\ op' = [name |-> "write", arg |-> 0, opt |-> ""]
    /\ UNCHANGED <<file, alive>>

NextEncode == WriteColor \/ WriteBoxes \/ WriteFrame \/ WriteOutput \/ WriteDevice

SpecEncode == InitEncode /\ [][NextEncode]_vars

\* write runs on: no step of it waits for anything
SpecEncodeFair == SpecEncode /\ WF_vars(NextEncode)

\* ------------------------------------------------------------ the PFM reader
\* PFMHandler of src/src/imageformats/pfm.cpp.  The device is a sequence of
\* bytes, a text a sequence of character codes; pos counts the bytes read.
\* A float is the four bytes of its bit pattern, most significant first.

\* "PF\n" and "Pf\n"
MagicColor == <<80, 70, 10>>
MagicGray == <<80, 102, 10>>

\* QIODevice::readLine(128): the bytes up to and including the next '\n', at
\* most 127 of them, or what is left of the device
readLine(dev, pos) ==
    LET nl == { i \in (pos + 1)..Len(dev) : dev[i] = 10 }
        end == IF nl = {} THEN Len(dev) ELSE First(nl)
    IN  SubSeq(dev, pos + 1, Min(end, pos + 127))

\* QString::split(" "): empty parts are kept
RECURSIVE split(_)
split(str) ==
    LET sp == { i \in 1..Len(str) : str[i] = 32 }
    IN  IF sp = {} THEN <<str>>
        ELSE <<SubSeq(str, 1, First(sp) - 1)>>
                 \o split(SubSeq(str, First(sp) + 1, Len(str)))

\* the text without the white space at its ends, as QString::toInt and
\* QString::toDouble see it
trimmed(str) ==
    LET ns == { i \in 1..Len(str) : str[i] \notin {9, 10, 13, 32} }
    IN  IF ns = {} THEN <<>>
        ELSE SubSeq(str, First(ns), CHOOSE i \in ns : \A j \in ns : j <= i)

\* the text of a number without its sign
unsigned(t) == IF t # <<>> /\ t[1] \in {43, 45} THEN Tail(t) ELSE t

RECURSIVE digitsValue(_)
digitsValue(ds) ==
    IF ds = <<>> THEN 0
    ELSE 10 * digitsValue(SubSeq(ds, 1, Len(ds) - 1)) + (ds[Len(ds)] - 48)

\* QString::toInt(&ok), for texts of fewer than ten characters
toInt(str) ==
    LET t == trimmed(str)
        ds == unsigned(t)
    IN  IF ds = <<>> \/ \E i \in 1..Len(ds) : ds[i] \notin 48..57
        THEN [ok |-> FALSE, v |-> 0]
        ELSE [ok |-> TRUE,
              v |-> IF t[1] = 45 THEN -digitsValue(ds) ELSE digitsValue(ds)]

\* QString::toDouble(&ok) of a decimal number without exponent, or of "nan":
\* sign is the sign of the number (0 for zero), nan says that it is NaN
toDouble(str) ==
    LET t == trimmed(str)
        ds == unsigned(t)
        dots == { i \in 1..Len(ds) : ds[i] = 46 }
        digs == { i \in 1..Len(ds) : ds[i] \in 48..57 }
    IN  IF t = <<110, 97, 110>> THEN [ok |-> TRUE, sign |-> 0, nan |-> TRUE]
        ELSE IF digs = {} \/ Cardinality(dots) > 1 \/ digs \cup dots # 1..Len(ds)
        THEN [ok |-> FALSE, sign |-> 0, nan |-> FALSE]
        ELSE [ok |-> TRUE, nan |-> FALSE,
              sign |-> IF \A i \in digs : ds[i] = 48 THEN 0
                       ELSE IF t[1] = 45 THEN -1 ELSE 1]

\* PFMHeader::PFMHeader
NewPFMHeader ==
    [ m_bw |-> FALSE, m_ps |-> FALSE, m_width |-> 0, m_height |-> 0,
      m_byteOrder |-> "BigEndian" ]

\* PFMHeader::isValid
isValid(hd) == hd.m_width > 0 /\ hd.m_height > 0

\* PFMHeader::read accepting a scale of 0
PFMHeader_read_zeroScale(hd, dev, pos) ==
    LET pf == SubSeq(dev, pos + 1, Min(pos + 3, Len(dev)))
        p1 == pos + Len(pf)
        wh == readLine(dev, p1)
        p2 == p1 + Len(wh)
        ps == Len(split(wh)) = 1
        list == IF ps THEN split(wh) \o <<readLine(dev, p2)>> ELSE split(wh)
        p3 == IF ps THEN p2 + Len(readLine(dev, p2)) ELSE p2
        h2 == [hd EXCEPT !.m_bw = (pf = MagicGray),
                         !.m_ps = IF ps THEN TRUE ELSE hd.m_ps]
        p4 == p3 + Len(readLine(dev, p3))
        o == toDouble(readLine(dev, p3))
        w == toInt(list[1])
        hgt == toInt(list[Len(list)])
        h3 == [h2 EXCEPT !.m_width = w.v, !.m_height = hgt.v,
                         !.m_byteOrder = IF ~o.nan /\ o.sign > 0
                                         THEN "BigEndian" ELSE "LittleEndian"]
    IN  IF pf \notin {MagicColor, MagicGray} THEN [hd |-> hd, ok |-> FALSE, pos |-> p1]
        ELSE IF Len(list) # 2 THEN [hd |-> h2, ok |-> FALSE, pos |-> p3]
        ELSE IF ~o.ok \/ ~w.ok \/ ~hgt.ok
        THEN [hd |-> h2, ok |-> FALSE, pos |-> p4]
        ELSE [hd |-> h3, ok |-> isValid(h3), pos |-> p4]

\* PFMHeader::read, from position pos of the device
PFMHeader_read(hd, dev, pos) ==
    LET pf == SubSeq(dev, pos + 1, Min(pos + 3, Len(dev)))
        p1 == pos + Len(pf)
        wh == readLine(dev, p1)
        p2 == p1 + Len(wh)
        \* one part only: the height is on a line of its own (Photoshop)
        ps == Len(split(wh)) = 1
        list == IF ps THEN split(wh) \o <<readLine(dev, p2)>> ELSE split(wh)
        p3 == IF ps THEN p2 + Len(readLine(dev, p2)) ELSE p2
        h2 == [hd EXCEPT !.m_bw = (pf = MagicGray),
                         !.m_ps = IF ps THEN TRUE ELSE hd.m_ps]
        p4 == p3 + Len(readLine(dev, p3))
        o == toDouble(readLine(dev, p3))
        w == toInt(list[1])
        hgt == toInt(list[Len(list)])
        h3 == [h2 EXCEPT !.m_width = w.v, !.m_height = hgt.v,
                         !.m_byteOrder = IF ~o.nan /\ o.sign > 0
                                         THEN "BigEndian" ELSE "LittleEndian"]
    IN  IF pf \notin {MagicColor, MagicGray} THEN [hd |-> hd, ok |-> FALSE, pos |-> p1]
        ELSE IF Len(list) # 2 THEN [hd |-> h2, ok |-> FALSE, pos |-> p3]
        ELSE IF ~o.ok \/ ~w.ok \/ ~hgt.ok \/ (~o.nan /\ o.sign = 0)
        THEN [hd |-> h2, ok |-> FALSE, pos |-> p4]
        ELSE [hd |-> h3, ok |-> isValid(h3), pos |-> p4]

\* PFMHandler::PFMHandler, with its device at the start; image is what
\* read has stored in *image
NewPFMHandler ==
    [ m_header |-> NewPFMHeader, pos |-> 0, format |-> "", image |-> <<>> ]

\* PFMHandler::canRead: a header of its own is read and the device rolled back
PFMHandler_canRead(s, dev) ==
    LET r == PFMHeader_read(NewPFMHeader, dev, s.pos)
    IN  IF r.ok /\ isValid(r.hd)
        THEN [h |-> [s EXCEPT !.format = "pfm"], ok |-> TRUE]
        ELSE [h |-> s, ok |-> FALSE]

\* PFMHandler::read, the pixel at column x of the y-th row of the file
\* (x, y from 0), with the pixel data at offset base
pixelAt(dev, base, hd, y, x) ==
    LET nch == IF hd.m_bw THEN 1 ELSE 3
        off == base + 4 * nch * (y * hd.m_width + x)
        \* QDataStream >> float, in the byte order of the header
        v(c) == IF hd.m_byteOrder = "BigEndian"
                THEN << dev[off + 4 * c + 1], dev[off + 4 * c + 2],
                        dev[off + 4 * c + 3], dev[off + 4 * c + 4] >>
                ELSE << dev[off + 4 * c + 4], dev[off + 4 * c + 3],
                        dev[off + 4 * c + 2], dev[off + 4 * c + 1] >>
        \* float(1)
        one == <<63, 128, 0, 0>>
    IN  IF hd.m_bw THEN <<v(0), v(0), v(0), one>>
        ELSE <<v(0), v(1), v(2), one>>

PFMFailPoints == {"none", "imageAlloc"}

\* PFMHandler::read handing out the allocated image when the data end early
PFMHandler_read_partialImage(s, dev, f) ==
    LET r == PFMHeader_read(s.m_header, dev, s.pos)
        s1 == [s EXCEPT !.m_header = r.hd, !.pos = r.pos]
        w == r.hd.m_width
        hgt == r.hd.m_height
        need == 4 * (IF r.hd.m_bw THEN 1 ELSE 3) * w * hgt
        fileRow(i) == IF r.hd.m_ps THEN i ELSE hgt - i - 1
        img == [i \in 1..hgt |->
                   [x \in 1..w |-> pixelAt(dev, r.pos, r.hd, fileRow(i - 1), x - 1)]]
    IN  IF ~r.ok THEN [h |-> s1, ok |-> FALSE]
        ELSE IF f = "imageAlloc" THEN [h |-> s1, ok |-> FALSE]
        ELSE IF Len(dev) - r.pos < need
        THEN [h |-> [s1 EXCEPT !.pos = Len(dev),
                               !.image = [i \in 1..hgt |-> <<>>]], ok |-> FALSE]
        ELSE [h |-> [s1 EXCEPT !.pos = r.pos + need, !.image = img], ok |-> TRUE]

\* PFMHandler::read
PFMHandler_read(s, dev, f) ==
    LET r == PFMHeader_read(s.m_header, dev, s.pos)
        s1 == [s EXCEPT !.m_header = r.hd, !.pos = r.pos]
        w == r.hd.m_width
        hgt == r.hd.m_height
        need == 4 * (IF r.hd.m_bw THEN 1 ELSE 3) * w * hgt
        \* scan line i of the image (from 0) takes row y of the file
        fileRow(i) == IF r.hd.m_ps THEN i ELSE hgt - i - 1
        img == [i \in 1..hgt |->
                   [x \in 1..w |-> pixelAt(dev, r.pos, r.hd, fileRow(i - 1), x - 1)]]
    IN  IF ~r.ok THEN [h |-> s1, ok |-> FALSE]
        ELSE IF f = "imageAlloc" THEN [h |-> s1, ok |-> FALSE]
        \* the stream runs dry inside a pixel
        ELSE IF Len(dev) - r.pos < need
        THEN [h |-> [s1 EXCEPT !.pos = Len(dev)], ok |-> FALSE]
        ELSE [h |-> [s1 EXCEPT !.pos = r.pos + need, !.image = img], ok |-> TRUE]

\* Headers: every text of up to MaxHeaderChars characters of '\n', ' ', '-',
\* '0', '2' and 'x' for the dimensions, then a line for the scale ("1\n",
\* "-1\n", "0\n", "-0.0\n", "x\n", "nan\n", or no line at all)
PFMHeaderFiles ==
    LET HeaderChars == {10, 32, 45, 48, 50, 120}
        ScaleTexts ==
            { <<49, 10>>, <<45, 49, 10>>, <<48, 10>>, <<45, 48, 46, 48, 10>>,
              <<120, 10>>, <<110, 97, 110, 10>>, <<>> }
    IN  { MagicColor \o d \o o :
            d \in UNION { [1..n -> HeaderChars] : n \in 0..MaxHeaderChars },
            o \in ScaleTexts }
        \cup { m \o d \o o :
                 \* "P6\n", "PF ", "PF", "Pf\n"
                 m \in { <<80, 54, 10>>, <<80, 70, 32>>, <<80, 70>>, MagicGray },
                 \* "2 2\n", "2\n2\n"
                 d \in { <<50, 32, 50, 10>>, <<50, 10, 50, 10>> },
                 o \in ScaleTexts }

\* A PFM of w x hgt pixels, w and hgt of one digit, whose pixel data are
\* bytes that are all different (from + 1, from + 2, ...) and lack the last
\* `short` bytes
PFMFile(magic, ps, w, hgt, scale, from, short) ==
    LET n == 4 * (IF magic = MagicGray THEN 1 ELSE 3) * w * hgt - short
    IN  magic \o <<48 + w>> \o (IF ps THEN <<10>> ELSE <<32>>) \o <<48 + hgt, 10>>
              \o scale \o [j \in 1..n |-> from + j]

\* the headers, the images with their pixel data, whole or cut short, and
\* two images of one column, one after the other on the device, the second
\* one whole or cut short
PFMFiles ==
    PFMHeaderFiles
    \cup { PFMFile(m, ps, w, hgt, o, 0, short) :
             m \in {MagicColor, MagicGray}, ps \in BOOLEAN,
             w \in 1..MaxPfmDim, hgt \in 1..MaxPfmDim,
             o \in { <<49, 10>>, <<45, 49, 10>> }, short \in 0..1 }
    \cup { PFMFile(MagicGray, ps1, 1, h1, <<45, 49, 10>>, 0, 0)
               \o PFMFile(MagicGray, ps2, 1, 2, <<49, 10>>, 100, short) :
             ps1 \in BOOLEAN, ps2 \in BOOLEAN, h1 \in 1..2, short \in 0..1 }

InitPFM ==
    /\ file \in PFMFiles
    /\ h = NewPFMHandler
    /\ pre = NewPFMHandler
    /\ op = [name |-> "new", arg |-> 0, opt |-> ""]
    /\ ret = Invalid
    /\ alive = TRUE

PFMCanRead ==
    /\ pre' = h
    /\ h' = PFMHandler_canRead(h, file).h
    /\ op' = [name |-> "canRead", arg |-> 0, opt |-> ""]
    /\ ret' = Variant(PFMHandler_canRead(h, file).ok, 0, 0)
    /\ UNCHANGED <<file, alive>>

PFMRead ==
    \E f \in PFMFailPoints :
        /\ pre' = h
        /\ h' = PFMHandler_read(h, file, f).h
        /\ op' = [name |-> "read", arg |-> 0, opt |-> ""]
        /\ ret' = Variant(PFMHandler_read(h, file, f).ok, 0, 0)
        /\ UNCHANGED <<file, alive>>

NextPFM ==
    \/ PFMCanRead
    \/ PFMRead

SpecPFM == InitPFM /\ [][NextPFM]_vars

\* ------------------------------------------------------------- properties

HandlerOps ==
    { "canRead", "read", "jumpToImage", "jumpToNextImage", "imageCount",
      "nextImageDelay", "currentImageNumber", "loopCount", "option", "setOption" }

\* C1: once parse_state is Error every later handler operation leaves it Error;
\* read, jumpToImage and jumpToNextImage return false, imageCount and
\* nextImageDelay return 0, and current_index, previous_index and frame_delays
\* are left unchanged.
C1_ErrorIsAbsorbing ==
    (pre.m_parseState = "Error" /\ op.name \in HandlerOps) =>
        /\ h.m_parseState = "Error"
        /\ op.name \in {"read", "jumpToImage", "jumpToNextImage"} => ~ret.b
        /\ op.name \in {"imageCount", "nextImageDelay"} => ret.n = 0
        /\ h.m_currentimage_index = pre.m_currentimage_index
        /\ h.m_previousimage_index = pre.m_previousimage_index
        /\ h.m_framedelays = pre.m_framedelays

\* an operation ran on a handler that failed after its frames were counted
C1_Witness ==
    /\ pre.m_parseState = "Error"
    /\ Len(pre.m_framedelays) > 1
    /\ op.name = "imageCount"
    /\ ret.n = 0

ReadPathOps == {"read", "jumpToImage", "jumpToNextImage"}

\* the argument of the last jumpToImage is no index of a counted frame
OutOfRange == op.arg < 0 \/ op.arg >= Len(h.m_framedelays)

\* C2 as stated: whenever ensureParsed, ensureALLCounted, read, jumpToNextImage or
\* jumpToImage returns false, parse_state is Error in the resulting state.
C2_EveryFailureLatchesError ==
    /\ (op.name \in ReadPathOps /\ ~ret.b) => h.m_parseState = "Error"
    /\ alive => \A f \in CountFailPoints :
           /\ ~ensureParsed(Begin(h), file, f).ok
                => ensureParsed(Begin(h), file, f).h.m_parseState = "Error"
           /\ ~ensureALLCounted(Begin(h), file, f).ok
                => ensureALLCounted(Begin(h), file, f).h.m_parseState = "Error"

\* C2: a false result of ensureParsed, ensureALLCounted, read, jumpToNextImage or
\* jumpToImage comes with parse_state = Error, except in two cases that leave
\* parse_state as it was: an empty input (still NotParsed) and a jumpToImage with
\* an index out of range after the frames were counted (still Success or Finished).
C2_FailureLatchesErrorExceptEmptyAndRange ==
    /\ (op.name \in ReadPathOps /\ ~ret.b) =>
           \/ h.m_parseState = "Error"
           \/ file.len = 0 /\ h.m_parseState = "NotParsed"
           \/ /\ op.name = "jumpToImage"
              /\ OutOfRange
              /\ h.m_parseState \in {"Success", "Finished"}
              /\ pre.m_parseState \in {"Success", "Finished"} => h.m_parseState = pre.m_parseState
    /\ alive => \A f \in CountFailPoints :
           LET p == ensureParsed(Begin(h), file, f)
               e == ensureALLCounted(Begin(h), file, f)
           IN  /\ ~p.ok => \/ p.h.m_parseState = "Error"
                           \/ file.len = 0 /\ p.h.m_parseState = "NotParsed"
               /\ ~e.ok => \/ e.h.m_parseState = "Error"
                           \/ file.len = 0 /\ e.h.m_parseState = "NotParsed"

\* a read on a counted animation failed while decoding and latched the error
C2_Witness ==
    /\ op.name = "read"
    /\ ~ret.b
    /\ pre.m_parseState = "Success"
    /\ h.m_parseState = "Error"
    /\ h.m_current_image = NullImage

C4_CachedRead ==
    (op.name = "read" /\ pre.m_parseState # "Error") =>
        /\ pre.m_currentimage_index = pre.m_previousimage_index =>
              /\ h.decodes = 0
              /\ h.out_image = pre.m_current_image
              /\ pre.m_current_image = pre.m_currentimage_index
              /\ ret.b =>
                   LET j == jumpToNextImage(pre, file, "none").h
                   IN  /\ h.m_currentimage_index = j.m_currentimage_index
                       /\ h.m_previousimage_index = j.m_previousimage_index
                       /\ h.m_parseState = j.m_parseState
                       /\ h.dec_pos = j.dec_pos
                       /\ h.rewinds = j.rewinds
                       /\ h.skipped = j.skipped
        /\ (pre.m_currentimage_index # pre.m_previousimage_index /\ ret.b) =>
              /\ h.decodes = 1
              /\ h.out_image = h.m_current_image

\* a read of an animation was served from the cache
C4_Witness ==
    /\ op.name = "read"
    /\ ret.b
    /\ Len(pre.m_framedelays) > 1
    /\ pre.m_currentimage_index = pre.m_previousimage_index
    /\ pre.m_currentimage_index > 0
    /\ h.out_image = pre.m_currentimage_index

\* the handler after n reads in a row on a new handler, none of them failing
RECURSIVE SequentialReads(_, _)
SequentialReads(fl, n) ==
    IF n = 0 THEN NewHandler
    ELSE read(Begin(SequentialReads(fl, n - 1)), fl, "none").h

\* C5: after a successful jumpToImage(i), from any state, the next read returns
\* frame i, the frame that the (i+1)-th of a new handler's reads in a row returns.
C5_SeekThenRead ==
    (op.name = "jumpToImage" /\ ret.b) =>
        LET r == read(Begin(h), file, "none")
        IN  /\ r.ok
            /\ r.h.out_image = op.arg
            /\ r.h.out_image = SequentialReads(file, op.arg + 1).out_image

\* a backward seek to a frame other than the first, whose next read decodes
C5_Witness ==
    /\ op.name = "jumpToImage"
    /\ ret.b
    /\ op.arg > 0
    /\ pre.m_currentimage_index > op.arg
    /\ op.arg # h.m_previousimage_index
    /\ read(Begin(h), file, "none").h.out_image = op.arg

\* the input is an animation of at least two frames
IsAnimation == file.have_animation /\ Len(file.durations) >= 2

\* h is the handler right after the n-th of a new handler's reads in a row
AfterSequentialRead(n) ==
    /\ op.name = "read"
    /\ n >= 1
    /\ pre = Begin(SequentialReads(file, n - 1))
    /\ h = SequentialReads(file, n)

\* C6 as stated: on a new handler for an animation of k >= 2 frames the k reads
\* return frames 0..k-1, the first k-1 leave Success with previous_index =
\* current_index - 1, the k-th leaves Finished, and the (k+1)-th read triggers
\* the rewind to frame 0 and returns frame 0.
C6_RewindAtReadAfterLast ==
    IsAnimation =>
        LET k == Len(file.durations)
        IN  \A n \in 1..(k + 1) :
                AfterSequentialRead(n) =>
                    /\ ret.b
                    /\ h.out_image = (n - 1) % k
                    /\ n < k => /\ h.m_parseState = "Success"
                                /\ h.m_previousimage_index = h.m_currentimage_index - 1
                    /\ n = k => h.m_parseState = "Finished"
                    /\ n = k + 1 => h.rewinds >= 1

\* C6: on a new handler for an animation of k >= 2 frames the k reads return
\* frames 0..k-1, the first k-1 leave Success with previous_index =
\* current_index - 1, the k-th read itself rewinds the decoder to frame 0 and
\* leaves Finished, and the (k+1)-th read rewinds nothing, decodes frame 0 and
\* returns it.
C6_RewindAtLastRead ==
    IsAnimation =>
        LET k == Len(file.durations)
        IN  \A n \in 1..(k + 1) :
                AfterSequentialRead(n) =>
                    /\ ret.b
                    /\ h.decodes = 1
                    /\ h.out_image = (n - 1) % k
                    /\ n < k => /\ h.m_parseState = "Success"
                                /\ h.m_previousimage_index = h.m_currentimage_index - 1
                    /\ n = k => /\ h.m_parseState = "Finished"
                                /\ h.rewinds = 1
                                /\ h.m_currentimage_index = 0
                                /\ h.dec_pos = 0
                    /\ n = k + 1 => /\ h.rewinds = 0
                                    /\ h.m_parseState = "Success"
                                    /\ h.m_currentimage_index = 1

\* the read after the last frame of the longest animation returned frame 0
C6_Witness ==
    /\ IsAnimation
    /\ Len(file.durations) = MaxFrames
    /\ AfterSequentialRead(MaxFrames + 1)
    /\ h.out_image = 0

\* the handler has counted a single frame
SingleFrame(s) == Len(s.m_framedelays) = 1 /\ s.m_parseState # "Error"

\* C7: for an image of a single frame the first read decodes once and latches
\* Finished; from then on, whatever reads and jumps follow, the handler never
\* fails, imageCount() is 1, nextImageDelay() is 0, and every read returns the
\* same cached image without decoding.
C7_StaticImage ==
    /\ (op.name = "read" /\ ret.b /\ SingleFrame(h) /\ pre.m_previousimage_index = -1) =>
           /\ h.decodes = 1
           /\ h.m_parseState = "Finished"
           /\ h.out_image = 0
    /\ (SingleFrame(pre) /\ pre.m_previousimage_index >= 0 /\ op.name \in HandlerOps) =>
           /\ SingleFrame(h)
           /\ h.m_current_image = pre.m_current_image
           /\ h.decodes = 0
           /\ op.name = "read" => ret.b /\ h.out_image = pre.m_current_image
           /\ op.name = "imageCount" => ret.n = 1
           /\ op.name = "nextImageDelay" => ret.n = 0
    /\ (alive /\ SingleFrame(h) /\ h.m_previousimage_index >= 0) =>
           \A f \in FailPoints :
               /\ imageCount(Begin(h), file, f).n = 1
               /\ nextImageDelay(Begin(h), file, f).n = 0

\* a single-frame image was read again after a jump and came from the cache
C7_Witness ==
    /\ op.name = "read"
    /\ ret.b
    /\ SingleFrame(pre)
    /\ pre.m_previousimage_index = 0
    /\ pre.m_parseState = "Success"
    /\ h.decodes = 0
    /\ h.out_image = 0

\* C8: from every state that is not Error and for every valid i, jumpToImage(i);
\* jumpToImage(i); read returns the same frame and leaves the same handler state
\* as jumpToImage(i); read.
C8_SeekIdempotent ==
    (alive /\ h.m_parseState # "Error") =>
        \A i \in ImageNumbers :
            LET a  == jumpToImage(Begin(h), file, "none", i)
                b  == jumpToImage(Begin(a.h), file, "none", i)
                r1 == read(Begin(a.h), file, "none")
                r2 == read(Begin(b.h), file, "none")
            IN  a.ok => /\ b.ok
                        /\ r1.ok = r2.ok
                        /\ r1.h = r2.h

\* a second jumpToImage(i) ran on the state a forward jumpToImage(i) had left
C8_Witness ==
    /\ op.name = "jumpToImage"
    /\ ret.b
    /\ op.arg > 0
    /\ op.arg = pre.m_currentimage_index
    /\ pre.m_parseState = "Success"
    /\ pre.dec_pos = op.arg
    /\ pre.m_previousimage_index # op.arg
    /\ read(Begin(h), file, "none").h.out_image = op.arg

\* rewinds of the last operation other than the one that ends the frame count
OwnRewinds == h.rewinds - (IF h.counted THEN 1 ELSE 0)

\* the current index jumpToImage compares with: 0 right after the frame count
IndexBefore == IF h.counted THEN 0 ELSE pre.m_currentimage_index

\* C9: jumpToImage(n) with n out of range returns false and, once frames are
\* counted, changes nothing; n = current_index returns true without a rewind or
\* a skip; n > current_index skips n - current_index frames without a rewind;
\* n < current_index rewinds once and skips n frames.
C9_JumpToImageEffect ==
    op.name = "jumpToImage" =>
        /\ OutOfRange => ~ret.b
        /\ (OutOfRange /\ pre.m_parseState \in {"Success", "Finished"}) => h = pre
        /\ (~OutOfRange /\ pre.m_parseState \in {"Success", "Finished"}
              /\ op.arg >= pre.m_currentimage_index) => ret.b
        /\ (~OutOfRange /\ ret.b) =>
              /\ h.m_currentimage_index = op.arg
              /\ h.m_parseState = "Success"
              /\ op.arg = IndexBefore => OwnRewinds = 0 /\ h.skipped = 0
              /\ op.arg > IndexBefore =>
                    /\ OwnRewinds = 0
                    /\ h.skipped = op.arg - IndexBefore
                    /\ h.dec_pos = op.arg
              /\ op.arg < IndexBefore =>
                    /\ OwnRewinds = 1
                    /\ h.skipped = op.arg
                    /\ h.dec_pos = op.arg

\* a backward jump that rewound and skipped, on a counted animation
C9_Witness ==
    /\ op.name = "jumpToImage"
    /\ ret.b
    /\ pre.m_parseState \in {"Success", "Finished"}
    /\ op.arg > 0
    /\ op.arg < pre.m_currentimage_index
    /\ h.rewinds = 1
    /\ h.skipped = op.arg

\* C10: in every state with parse_state Success or Finished,
\* 0 <= current_index < frame_delays.len().
C10_IndexInRange ==
    h.m_parseState \in {"Success", "Finished"} =>
        /\ 0 <= h.m_currentimage_index
        /\ h.m_currentimage_index < Len(h.m_framedelays)

\* the index wrapped around to 0 after the last frame was passed
C10_Witness ==
    /\ h.m_parseState \in {"Success", "Finished"}
    /\ op.name \in {"read", "jumpToNextImage"}
    /\ Len(h.m_framedelays) > 1
    /\ pre.m_currentimage_index = Len(h.m_framedelays) - 1
    /\ h.m_currentimage_index = 0

Counted(s) == s.m_parseState \in {"Success", "Finished"}

\* C11 as stated: in every state in which have_animation is false, the state
\* right after ensureParsed included, frame_delays has exactly one entry and
\* that entry is 0.
C11_NoAnimationMeansOneZeroDelay ==
    (h.m_parseState \in {"BasicInfoParsed", "Success", "Finished"}
        /\ ~h.m_basicinfo.have_animation) => h.m_framedelays = <<0>>

\* C11: once the frames are counted (parse_state Success or Finished) a handler
\* whose have_animation is false has exactly one entry in frame_delays.  The
\* entry is 0 for an input that was not flagged as animation; for an input
\* flagged as animation with a single frame it is that frame's computed delay,
\* which may be non-zero, and nextImageDelay() still returns 0.  Right after
\* ensureParsed (BasicInfoParsed) frame_delays is still empty.
C11_NoAnimationMeansOneDelay ==
    /\ (Counted(h) /\ ~h.m_basicinfo.have_animation) =>
           /\ Len(h.m_framedelays) = 1
           /\ ~file.have_animation => h.m_framedelays[1] = 0
           /\ file.have_animation => h.m_framedelays[1] = FrameDelay(file, 1)
           /\ alive => nextImageDelay(Begin(h), file, "none").n = 0
    /\ h.m_parseState = "BasicInfoParsed" => h.m_framedelays = <<>>

\* the frames of a one-frame input flagged as animation were counted: the flag
\* is cleared and the one delay is not 0
C11_Witness ==
    /\ Counted(h)
    /\ file.have_animation
    /\ ~h.m_basicinfo.have_animation
    /\ Len(h.m_framedelays) = 1
    /\ h.m_framedelays[1] > 0
    /\ op.name = "nextImageDelay"
    /\ ret.n = 0

\* C12: whenever parse_state is BasicInfoParsed, Success or Finished the
\* handler holds a decoder handle: it was created and has not been destroyed.
C12_DecoderHeldWhileParsed ==
    (alive /\ h.m_parseState \in {"BasicInfoParsed", "Success", "Finished"}) =>
        /\ h.m_decoder
        /\ h.decoders_created = 1
        /\ h.decoders_destroyed = 0

\* the last frame of an animation was read and the decoder rewound: Finished,
\* with the decoder still held
C12_Witness ==
    /\ alive
    /\ h.m_parseState = "Finished"
    /\ op.name = "read"
    /\ h.rewinds = 1
    /\ h.m_decoder

\* the dimensions of the input break one of the caps C13 lists
BreaksCaps(fl) ==
    \/ fl.xsize = 0
    \/ fl.ysize = 0
    \/ fl.xsize > MAX_IMAGE_WIDTH
    \/ fl.ysize > MAX_IMAGE_HEIGHT
    \/ fl.xsize * fl.ysize > MAX_IMAGE_PIXELS

\* C13: ensureParsed fails (Error, no image allocated) whenever the basic info
\* reports xsize = 0, ysize = 0, xsize or ysize above the platform maximum, or
\* xsize * ysize above 2^28; so in every state with parse_state at least
\* BasicInfoParsed the width and height are positive, within the maxima, and
\* width * height is at most 2^28.
C13_DimensionCaps ==
    \* an operation took the handler out of NotParsed: ensureParsed ran
    /\ (op.name \in HandlerOps /\ pre.m_parseState = "NotParsed"
          /\ h.m_parseState # "NotParsed" /\ BreaksCaps(file)) =>
           /\ h.m_parseState = "Error"
           /\ h.m_current_image = NullImage
           /\ op.name \in {"read", "jumpToImage", "jumpToNextImage"} => ~ret.b
    /\ h.m_parseState \in {"BasicInfoParsed", "Success", "Finished"} =>
           /\ h.m_basicinfo.xsize \in 1..MAX_IMAGE_WIDTH
           /\ h.m_basicinfo.ysize \in 1..MAX_IMAGE_HEIGHT
           /\ h.m_basicinfo.xsize * h.m_basicinfo.ysize <= MAX_IMAGE_PIXELS

\* the order NotParsed < BasicInfoParsed < Success < Finished, Error above all
Rank(s) ==
    CASE s.m_parseState = "NotParsed" -> 0
      [] s.m_parseState = "BasicInfoParsed" -> 1
      [] s.m_parseState = "Success" -> 2
      [] s.m_parseState = "Finished" -> 3
      [] s.m_parseState = "Error" -> 4

\* C14 as stated: parse_state only moves forward in NotParsed < BasicInfoParsed
\* < Success < Finished (Error from any state); the only backward step is
\* Finished -> Success, and it happens only through a rewind after a full
\* decode cycle.
C14_BackwardOnlyThroughRewind ==
    /\ Rank(h) >= Rank(pre) \/ (pre.m_parseState = "Finished" /\ h.m_parseState = "Success")
    /\ (pre.m_parseState = "Finished" /\ h.m_parseState = "Success") => h.rewinds >= 1

\* C14: parse_state only moves forward in NotParsed < BasicInfoParsed < Success
\* < Finished (Error from any state); the only backward step is Finished ->
\* Success, taken by a read, jumpToImage or jumpToNextImage that follows the
\* read of the last frame, whether or not that operation rewinds the decoder.
\* Finished itself is latched only by a read that decoded the last frame.
C14_ParseStateOrder ==
    /\ \/ Rank(h) >= Rank(pre)
       \/ /\ pre.m_parseState = "Finished"
          /\ h.m_parseState = "Success"
          /\ op.name \in ReadPathOps
    /\ h.m_parseState = "Finished" =>
           \/ pre.m_parseState = "Finished" /\ h.decodes = 0
           \/ /\ op.name = "read"
              /\ h.decodes = 1
              /\ h.m_previousimage_index = Len(h.m_framedelays) - 1

\* a seek on a handler that had read its last frame took it back to Success
\* and the decoder was not rewound
C14_Witness ==
    /\ pre.m_parseState = "Finished"
    /\ h.m_parseState = "Success"
    /\ op.name = "jumpToImage"
    /\ ret.b
    /\ h.rewinds = 0

Parsed(s) == s.m_parseState \in {"BasicInfoParsed", "Success", "Finished"}

ClampedQuality(q) == IF q > 100 THEN 100 ELSE IF q < 0 THEN 90 ELSE q

\* C16: setOption(Quality, q) stores q for 0 <= q <= 100, 100 for q > 100 and
\* 90 for q < 0; option(Quality) returns the stored value without parsing the
\* input; write applies the same clamp to the stored quality.
C16_QualityClamp ==
    /\ h.m_quality \in 0..100
    /\ (op.name = "setOption" /\ op.opt = "Quality") =>
           /\ h.m_quality = ClampedQuality(op.arg)
           /\ h = [pre EXCEPT !.m_quality = ClampedQuality(op.arg)]
    /\ (op.name = "option" /\ op.opt = "Quality") =>
           /\ ret = Variant(TRUE, pre.m_quality, 0)
           /\ h = pre
    /\ (op.name = "write" /\ ret.n # 0) => h.m_quality = ClampedQuality(pre.m_quality)
    /\ alive => \A q \in WriteQualityValues, f \in WriteFailPoints \ {"JxlEncoderCreate"} :
           LET w == write([Begin(h) EXCEPT !.m_quality = q], [file EXCEPT !.cores = 1],
                          Image(TRUE, GoodDims.xsize, GoodDims.ysize), f)
           IN  /\ w.h.m_quality = ClampedQuality(q)
               /\ w.h.m_quality = setOption(Begin(h), "Quality", q).m_quality

\* a negative quality was asked for on a handler that held another quality and
\* had parsed nothing
C16_Witness ==
    /\ op.name = "setOption"
    /\ op.opt = "Quality"
    /\ op.arg < 0
    /\ pre.m_quality = 50
    /\ h.m_quality = 90
    /\ h.m_parseState = "NotParsed"

\* C17: setOption(ImageTransformation, v) sets the stored transformation to v
\* for every v in 0..7, whatever was stored before; a value outside 0..7 leaves
\* the stored transformation unchanged.
C17_TransformationStored ==
    (op.name = "setOption" /\ op.opt = "ImageTransformation") =>
        IF op.arg \in 0..7
        THEN h = [pre EXCEPT !.m_transformations = op.arg]
        ELSE h = pre

\* C18: the map from the 8 transformation values to the 8 orientation codes
\* used by write is a bijection, and the map used by option(ImageTransformation)
\* when decoding is its inverse: encoding then decoding gives back the same
\* transformation, and decoding then encoding the same orientation.
C18_OrientationRoundTrip ==
    /\ \A t \in 0..7 :
           /\ writeOrientation(t) \in 1..8
           /\ TransformationOf(writeOrientation(t)) = t
    /\ \A o \in 1..8 :
           /\ TransformationOf(o) \in 0..7
           /\ writeOrientation(TransformationOf(o)) = o
    /\ \A t1, t2 \in 0..7 : writeOrientation(t1) = writeOrientation(t2) => t1 = t2
    \* the orientation a write chose decodes to the stored transformation
    /\ (op.name = "write" /\ ret.n # 0) =>
           /\ ret.n = writeOrientation(h.m_transformations)
           /\ TransformationOf(ret.n) = h.m_transformations
    \* the transformation option() decoded encodes to the input's orientation
    /\ (op.name = "option" /\ op.opt = "ImageTransformation" /\ Parsed(h)
          /\ h.m_basicinfo.orientation \in 1..8) =>
           /\ ret.b
           /\ writeOrientation(ret.n) = h.m_basicinfo.orientation

\* an image was written by a handler that stored the transformation
\* FlipAndRotate90: the orientation chosen is TRANSPOSE
C18_Witness ==
    /\ op.name = "write"
    /\ ret.b
    /\ h.m_transformations = 6
    /\ ret.n = 5

\* C19: canRead(device) returns false for a null device and for a device
\* with fewer than 12 bytes to peek (an input holding only the first 8
\* signature bytes included); it returns true only when the signature check
\* says codestream or container; and it leaves the device's read position
\* unchanged.
C19_CanReadDevice ==
    /\ ~canReadDevice(NullDevice).ok
    /\ op.name = "canReadDevice" =>
           /\ op.opt = "null" => ~ret.b /\ h = pre
           /\ op.opt = "device" =>
                  /\ file.len - pre.device_pos < MinHeaderSize => ~ret.b
                  /\ ret.b => file.sig \in {"CODESTREAM", "CONTAINER"}
                  /\ ret.b <=> /\ file.len - pre.device_pos >= MinHeaderSize
                               /\ file.sig \in {"CODESTREAM", "CONTAINER"}
                  /\ ret.n = pre.device_pos
                  /\ h = pre
    /\ alive => \A pos \in {0, file.len} :
           LET dev == Device(FALSE, file.len, file.sig, pos)
           IN  canReadDevice(dev).dev = dev

\* the device of an unparsed handler holds a whole container and was probed:
\* the answer is true and the position is still 0
C19_Witness ==
    /\ op.name = "canReadDevice"
    /\ op.opt = "device"
    /\ file.sig = "CONTAINER"
    /\ ret.b
    /\ h.device_pos = 0
    /\ h.m_parseState = "NotParsed"


Max(a, b) == IF a > b THEN a ELSE b

\* the boxes decodeContainer extracts from the input: the first Exif box and
\* the first XMP box
ExtractedBoxes(fl) ==
    { fl.boxes[i] : i \in {FirstBox(fl, "Exif"), FirstBox(fl, "xml ")} \ {0} }

\* the length the output of extractBox can grow to for a box of raw bytes: the
\* first of raw, raw + 16384, raw + 2 * 16384, ... above 4194304
BoxCapacity(raw) ==
    IF raw > BoxSizeLimit THEN raw
    ELSE raw + BoxGrowStep * ((BoxSizeLimit - raw) \div BoxGrowStep + 1)

OversizedBoxes(fl) ==
    { i \in {FirstBox(fl, "Exif"), FirstBox(fl, "xml ")} \ {0} :
        fl.boxes[i].raw > fl.len }

\* the extracted boxes of the input that come before all of them
BoxesBeforeOversized(fl) ==
    { i \in {FirstBox(fl, "Exif"), FirstBox(fl, "xml ")} \ {0} :
        \A j \in OversizedBoxes(fl) : i < j }

\* C21: a metadata box whose raw size is larger than the length of the input
\* is rejected: extractBox returns false, parse_state becomes Error, and no
\* output buffer is sized or handed to the decoder for it.
C21_OversizedBoxRejected ==
    /\ \A i \in OversizedBoxes(file) :
           LET x == extractBox(Begin(h), file.boxes[i], file.len)
           IN  /\ ~x.ok
               /\ x.h = [Begin(h) EXCEPT !.m_parseState = "Error"]
               /\ ~x.sized
               /\ x.size = 0
    \* the operation that counted the frames of such an input
    /\ (h.counted /\ OversizedBoxes(file) # {}) =>
           /\ h.m_parseState = "Error"
           /\ h.boxesSized <= Cardinality(BoxesBeforeOversized(file))
           /\ h.m_xmp = 0
           /\ h.m_exif = 0
           /\ op.name \in ReadPathOps => ~ret.b
           /\ op.name \in {"imageCount", "nextImageDelay"} => ret.n = 0

\* the frames of a container were counted whose XMP box fits and whose Exif
\* box, further on, is said to be longer than the input: the scan sized the
\* output of the XMP box only and gave up
C21_Witness ==
    /\ h.counted
    /\ h.m_parseState = "Error"
    /\ OversizedBoxes(file) = {FirstBox(file, "Exif")}
    /\ BoxesBeforeOversized(file) = {FirstBox(file, "xml ")}
    /\ h.boxesSized = 1
    /\ op.name = "read"
    /\ ~ret.b

\* the offsets at which a TIFF header occurs in bytes
TiffOffsets(bytes) ==
    { i \in 0..(Len(bytes) - 4) :
        SubSeq(bytes, i + 1, i + 4) \in {tiffHeaderBE, tiffHeaderLE} }

\* the contents of the Exif box of the input
ExifPayload(fl) == fl.boxes[FirstBox(fl, "Exif")].bytes

\* the stored exif blob: QByteArray::mid(exifIndex) of the payload
ExifBlob(s, fl) ==
    IF s.exifIndex = -1 THEN <<>>
    ELSE SubSeq(ExifPayload(fl), s.exifIndex + 1, Len(ExifPayload(fl)))

\* C22: after the container scan, the stored exif blob is either empty or
\* starts with a TIFF header (MM 00 2A or II 2A 00) and is the suffix of the
\* payload of the Exif box that begins at the smallest offset at which either
\* header occurs; a payload with no TIFF header is discarded (exif stays
\* empty) without putting the handler in Error.
C22_ExifFromTiffHeader ==
    /\ Len(ExifBlob(h, file)) = h.m_exif
    /\ \/ ExifBlob(h, file) = <<>>
       \/ /\ SubSeq(ExifBlob(h, file), 1, 4) \in {tiffHeaderBE, tiffHeaderLE}
          /\ h.exifIndex \in TiffOffsets(ExifPayload(file))
          /\ \A i \in TiffOffsets(ExifPayload(file)) : h.exifIndex <= i
    \* once the container is scanned: a payload of more than 4 bytes with a
    \* header is kept from the header on, any other payload is discarded
    /\ Counted(h) =>
           /\ (TiffOffsets(ExifPayload(file)) # {}
                 /\ Len(ExifPayload(file)) > TiffHeaderSize) => ExifBlob(h, file) # <<>>
           /\ TiffOffsets(ExifPayload(file)) = {} => ExifBlob(h, file) = <<>>
    /\ (h.counted /\ op.name = "read" /\ ret.b) => Counted(h)
    /\ alive => LET r == read(Begin(h), file, "none")
                IN  (h.m_parseState = "NotParsed" /\ TiffOffsets(ExifPayload(file)) = {}) =>
                       /\ r.ok
                       /\ r.h.m_parseState # "Error"
                       /\ r.h.m_exif = 0

\* a container was read whose Exif box holds an offset byte and then both
\* headers, the big-endian one first: the blob starts at offset 1
C22_Witness ==
    /\ op.name = "read"
    /\ ret.b
    /\ h.counted
    /\ Len(ExifPayload(file)) = 9
    /\ indexOf(ExifPayload(file), tiffHeaderBE) = 1
    /\ indexOf(ExifPayload(file), tiffHeaderLE) = 5
    /\ ExifBlob(h, file) = tiffHeaderBE \o tiffHeaderLE

\* C23: for every CMYK8 pixel array, the encoder's split-and-invert step (C, M,
\* Y to the CMY plane, K to the K plane, each byte as 255 - v) followed by the
\* decoder's invert-and-interleave step gives back the original four channels
\* byte for byte, in the same pixel order, on the decode path for CMYK without
\* alpha and on the one for CMYK with alpha.
C23_CmykRoundTrip ==
    /\ h.stage = "planes" =>
           /\ Len(h.pixels_cmy) = 3 * file.width * file.height
           /\ Len(h.pixels_black) = file.width * file.height
           /\ \A y \in 1..file.height, x \in 1..file.width :
                  LET p == (y - 1) * file.width + x
                  IN  /\ \A c \in 1..3 :
                             h.pixels_cmy[3 * (p - 1) + c] = 255 - file.lines[y][4 * (x - 1) + c]
                      /\ h.pixels_black[p] = 255 - file.lines[y][4 * x]
    /\ h.stage = "decoded" =>
           /\ op.opt \in {"CMYK", "CMYK+alpha"}
           /\ h.lines = file.lines

\* an image of two pixels that differ in every channel went through the
\* split and the path for CMYK with alpha
C23_Witness ==
    /\ h.stage = "decoded"
    /\ op.opt = "CMYK+alpha"
    /\ file.width = 2
    /\ file.lines = << <<0, 100, 255, 100, 255, 0, 100, 0>> >>
    /\ h.pixels_black = <<155, 255>>
    /\ h.lines = file.lines

\* the input has an extra channel of type BLACK
HasBlack(fl) == ChannelsOfType(fl, "BLACK", 0) # {}

\* C24: in every reachable state, is_cmyk implies num_color_channels = 3,
\* uses_original_profile, a colorspace of model CMYK, and cmyk_channel_id the
\* index of an extra channel of type BLACK, the first one; a BLACK channel
\* without a CMYK colorspace, or a CMYK colorspace without a BLACK channel,
\* leaves is_cmyk false and does not put the handler in Error.
C24_CmykDetection ==
    /\ h.m_isCMYK =>
           /\ h.m_basicinfo.num_color_channels = 3
           /\ h.m_basicinfo.uses_original_profile
           /\ h.m_colorspace = "CMYK"
           /\ h.m_cmyk_channel_id \in 0..(h.m_basicinfo.num_extra_channels - 1)
           /\ file.extra_channels[h.m_cmyk_channel_id + 1] = "BLACK"
           /\ \A i \in 0..(h.m_cmyk_channel_id - 1) : file.extra_channels[i + 1] # "BLACK"
    /\ ((HasBlack(file) /\ file.colorspace # "CMYK")
          \/ (~HasBlack(file) /\ file.colorspace = "CMYK")) =>
           /\ ~h.m_isCMYK
           /\ h.m_parseState = "NotParsed" =>
                  LET r == read(Begin(h), file, "none")
                  IN  /\ r.ok
                      /\ r.h.m_parseState # "Error"
                      /\ ~r.h.m_isCMYK

\* an input with a CMYK profile was read whose second and third extra
\* channels are black: the handler took it for CMYK, black at index 1
C24_Witness ==
    /\ op.name = "read"
    /\ ret.b
    /\ h.counted
    /\ h.m_isCMYK
    /\ h.m_cmyk_channel_id = 1
    /\ file.extra_channels = <<"ALPHA", "BLACK", "BLACK">>
    /\ h.m_alpha_channel_id = 0

\* an image C25 expects write to turn down
BadImage(img) ==
    \/ ~img.valid
    \/ img.width = 0 \/ img.height = 0
    \/ img.width > MAX_IMAGE_WIDTH \/ img.height > MAX_IMAGE_HEIGHT
    \/ img.width * img.height > 2^28

\* C25: write rejects bad inputs before doing any work: for an image of format
\* Invalid, of width or height 0, of width or height above the platform
\* maximum, or of more than 2^28 pixels, write returns false, creates no
\* encoder or worker pool, and writes nothing to the device.
C25_WritePrechecks ==
    /\ (op.name = "write" /\ BadImage(op.arg)) =>
           /\ ~ret.b
           /\ ~h.encoder_created
           /\ ~h.runner_created
           /\ h.destroyed = <<>>
           /\ ~h.written
           /\ h = pre
    /\ (op.name = "write" /\ (h.encoder_created \/ h.runner_created \/ h.written)) =>
           ~BadImage(op.arg)

\* write was handed an image of 2^29 pixels, within the limits on width and
\* height, on a host with 8 cores: it did nothing
C25_Witness ==
    /\ op.name = "write"
    /\ op.arg = Image(TRUE, WideDims.xsize, WideDims.ysize)
    /\ file.cores = 8
    /\ ~ret.b
    /\ ~h.encoder_created
    /\ ~h.runner_created
    /\ h = pre

\* C26 as stated: on every exit path of write after the encoder has been
\* created (success, or any failure: bad profile, encoder call rejected,
\* allocation failure while packing pixels, unsupported data type, output
\* error), the worker pool and the encoder are both destroyed before write
\* returns, the pool before the encoder; likewise handler teardown destroys the
\* runner before the decoder.
C26_PoolAndEncoderDestroyed ==
    /\ (op.name = "write" /\ h.encoder_created) =>
           h.destroyed = IF h.runner_created THEN <<"runner", "encoder">>
                         ELSE <<"encoder">>
    /\ alive => LET d == destroy(Begin(h))
                IN  d.destroyed = (IF h.m_runner THEN <<"m_runner">> ELSE <<>>)
                                    \o (IF h.m_decoder THEN <<"m_decoder">> ELSE <<>>)

\* round(1000 * d * tps_denominator / tps_numerator), half up, by whole
\* seconds and milliseconds: <<whole, millis>> stands for 1000 * whole + millis
RoundedDelay(fl, i) ==
    LET ticks == fl.durations[i] * fl.tps_denominator
    IN  << ticks \div fl.tps_numerator,
           (2000 * (ticks % fl.tps_numerator) + fl.tps_numerator)
               \div (2 * fl.tps_numerator) >>

\* C27 as stated: for every counted frame, with duration d and time base
\* tps_numerator / tps_denominator taken over their whole range, the value
\* appended to frame_delays is round(1000 * d * tps_denominator /
\* tps_numerator) (round half up) and 0 when tps_numerator = 0; the stored
\* 32-bit int is never negative and never wrapped.
C27_DelayIsRoundedQuotient ==
    (h.counted /\ Counted(h)) =>
        \A i \in 1..Len(h.m_framedelays) :
            /\ h.m_framedelays[i] >= 0
            /\ file.tps_numerator = 0 => h.m_framedelays[i] = 0
            /\ file.tps_numerator # 0 =>
                   /\ h.m_framedelays[i] \div 1000 = RoundedDelay(file, i)[1]
                           + RoundedDelay(file, i)[2] \div 1000
                   /\ h.m_framedelays[i] % 1000 = RoundedDelay(file, i)[2] % 1000

\* C28: after a successful ensureALLCounted, frame_delays has one entry per
\* frame header seen up to and including the first one marked is_last (at
\* least one), a file flagged as animation with a single frame has
\* have_animation downgraded to false, and in every state in {Success,
\* Finished} option(Animation) is true exactly when imageCount() >= 2.
C28_FramesCountedAndAnimationFlag ==
    /\ (h.counted /\ Counted(h)) =>
           /\ Len(h.m_framedelays) = NumFrames(file)
           /\ Len(h.m_framedelays) >= 1
           /\ (file.have_animation /\ Len(file.durations) = 1)
                  => ~h.m_basicinfo.have_animation
    /\ Counted(h) =>
           \A f \in ParseFailPoints, g \in CountFailPoints :
               option(h, file, f, "Animation").v.b
                   <=> imageCount(h, file, g).n >= 2
    /\ (Counted(h) /\ op.name = "option" /\ op.opt = "Animation") =>
           (ret.b <=> Len(h.m_framedelays) >= 2)
    /\ (Counted(h) /\ op.name = "imageCount") =>
           (ret.n = Len(h.m_framedelays) /\ (ret.n >= 2 <=> h.m_basicinfo.have_animation))

\* an animation of one frame is counted by imageCount and is no animation
C28_Witness ==
    /\ op.name = "imageCount"
    /\ h.counted /\ Counted(h)
    /\ file.have_animation /\ Len(file.durations) = 1
    /\ ret.n = 1
    /\ ~h.m_basicinfo.have_animation

\* A PFM header as the format describes it, for the header at position p of
\* the device: the lines after the three bytes of the type
DimLine(dev, p) == readLine(dev, p + 3)
HeightLine(dev, p) == readLine(dev, p + 3 + Len(DimLine(dev, p)))

\* an integer, an integer above 0: an optional sign and digits, white space
\* around them
IsInteger(tok) ==
    LET ds == unsigned(trimmed(tok))
    IN  ds # <<>> /\ \A i \in 1..Len(ds) : ds[i] \in 48..57

IsPositive(tok) ==
    /\ IsInteger(tok)
    /\ trimmed(tok)[1] # 45
    /\ \E i \in 1..Len(tok) : tok[i] \in 49..57

\* GIMP: one line 'w h'
GimpDims(dev, p) ==
    /\ Len(split(DimLine(dev, p))) = 2
    /\ \A i \in 1..2 : IsInteger(split(DimLine(dev, p))[i])

\* Photoshop: two lines 'w', 'h'
PhotoshopDims(dev, p) ==
    /\ Len(split(DimLine(dev, p))) = 1
    /\ IsInteger(DimLine(dev, p))
    /\ IsInteger(HeightLine(dev, p))

PositiveDims(dev, p) ==
    \/ GimpDims(dev, p) /\ \A i \in 1..2 : IsPositive(split(DimLine(dev, p))[i])
    \/ PhotoshopDims(dev, p) /\ IsPositive(DimLine(dev, p))
           /\ IsPositive(HeightLine(dev, p))

\* the line of the scale, after the dimensions
ScaleLine(dev, p) ==
    readLine(dev, p + 3 + Len(DimLine(dev, p))
                    + (IF PhotoshopDims(dev, p) THEN Len(HeightLine(dev, p)) ELSE 0))

GoodMagic(dev, p) ==
    Len(dev) >= p + 3 /\ SubSeq(dev, p + 1, p + 3) \in {MagicColor, MagicGray}

\* the scale is a number and not 0
GoodScale(dev, p) ==
    /\ toDouble(ScaleLine(dev, p)).ok
    /\ toDouble(ScaleLine(dev, p)).nan \/ toDouble(ScaleLine(dev, p)).sign # 0

BadHeader(dev, p) ==
    \/ ~GoodMagic(dev, p)
    \/ ~GimpDims(dev, p) /\ ~PhotoshopDims(dev, p)
    \/ ~PositiveDims(dev, p)
    \/ ~GoodScale(dev, p)

FileFloat(dev, off, big) ==
    IF big THEN <<dev[off + 1], dev[off + 2], dev[off + 3], dev[off + 4]>>
    ELSE <<dev[off + 4], dev[off + 3], dev[off + 2], dev[off + 1]>>

\* the image that read has stored is the one of the PFM at position p: row y
\* of the file is in row h-1-y (GIMP) or y (Photoshop), the pixels of a row
\* in their order, the floats in the byte order of the sign of the scale
RowsAsTheVariantSays(dev, p, image, end) ==
    LET hgt == Len(image)
        w == Len(image[1])
        nch == IF SubSeq(dev, p + 1, p + 3) = MagicGray THEN 1 ELSE 3
        base == end - 4 * nch * w * hgt
        big == toDouble(ScaleLine(dev, p)).sign > 0
        row(y) == IF GimpDims(dev, p) THEN hgt - 1 - y ELSE y
    IN  \A y \in 0..(hgt - 1), x \in 0..(w - 1), c \in 0..(nch - 1) :
            image[row(y) + 1][x + 1][c + 1]
                = FileFloat(dev, base + 4 * (nch * (y * w + x) + c), big)

\* C30 as stated: for a valid PFM of height h, the y-th row of floats in the
\* file (y = 0 first) is stored in image row h-1-y for the GIMP variant and
\* in image row y for the Photoshop variant, pixels keep their left-to-right
\* order inside a row, and the floats are read big-endian when the scale is
\* positive and little-endian when it is negative.
C30_RowOrderAndByteOrder ==
    (op.name = "read" /\ ret.b) =>
        RowsAsTheVariantSays(file, pre.pos, h.image, h.pos)

\* the pixel data of the PFM at position p end before its last pixel
DataCutShort(dev, p) ==
    LET r == PFMHeader_read(NewPFMHeader, dev, p)
    IN  /\ r.ok
        /\ Len(dev) - r.pos
               < 4 * (IF r.hd.m_bw THEN 1 ELSE 3) * r.hd.m_width * r.hd.m_height

\* every pixel has alpha 1.0; with gray, R = G = B
OpaquePixels(image, gray) ==
    \A i \in 1..Len(image) : \A x \in 1..Len(image[i]) :
        /\ image[i][x][4] = <<63, 128, 0, 0>>
        /\ gray => (image[i][x][1] = image[i][x][2] /\ image[i][x][2] = image[i][x][3])

\* C31: PFMHandler::read is all-or-nothing toward the caller: if the header
\* is invalid, the image cannot be allocated, or the data stream reports an
\* error at any pixel (for example the file ends early), read returns false
\* and the caller's output image is not modified; on success every pixel has
\* alpha 1.0 and, for grayscale input, R = G = B.
C31_ReadAllOrNothing ==
    /\ (op.name = "read" /\ ~ret.b) => h.image = pre.image
    /\ (op.name = "read" /\ ret.b) =>
           /\ Len(h.image) > 0
           /\ OpaquePixels(h.image, SubSeq(file, pre.pos + 1, pre.pos + 3) = MagicGray)
    /\ (op.name = "read" /\ (BadHeader(file, pre.pos) \/ DataCutShort(file, pre.pos)))
           => ~ret.b
    /\ \A f \in PFMFailPoints :
           (f = "imageAlloc" \/ BadHeader(file, h.pos) \/ DataCutShort(file, h.pos)) =>
               /\ ~PFMHandler_read(h, file, f).ok
               /\ PFMHandler_read(h, file, f).h.image = h.image

\* after an image was read, a read of a second image whose data end early
\* has failed
C31_Witness ==
    /\ op.name = "read"
    /\ ~ret.b
    /\ pre.image # <<>>
    /\ DataCutShort(file, pre.pos)
    /\ h.image = pre.image

\* the handler has taken the input for CMYK with alpha
CmykWithAlpha ==
    /\ h.m_isCMYK
    /\ file.alpha_bits > 0
    /\ h.m_parseState # "Error"

\* a read has run the CMYK detection on an input with a CMYK profile, a
\* black channel and alpha_bits > 0, the library calls succeeding
DetectionRan ==
    /\ op.name = "read"
    /\ pre.m_parseState = "NotParsed"
    /\ h.counted
    /\ file.uses_original_profile /\ file.num_color_channels = 3
    /\ file.colorspace = "CMYK" /\ HasBlack(file)
    /\ file.alpha_bits > 0

\* C33 as stated: when CMYK is detected and alpha_bits > 0, alpha_channel_id
\* is the index of the first extra channel of type ALPHA that comes after the
\* BLACK channel; if alpha_bits > 0 and no ALPHA channel is found the handler
\* goes to Error; the recorded id always references an extra channel of type
\* ALPHA.
C33_FirstAlphaAfterBlack ==
    /\ CmykWithAlpha =>
           /\ ChannelsOfType(file, "ALPHA", h.m_cmyk_channel_id + 1) # {}
           /\ h.m_alpha_channel_id
                  = First(ChannelsOfType(file, "ALPHA", h.m_cmyk_channel_id + 1))
    /\ (DetectionRan /\ ChannelsOfType(file, "ALPHA", 0) = {}) =>
           (h.m_parseState = "Error" /\ ~ret.b)

\* C33, amended: when CMYK is detected and alpha_bits > 0, alpha_channel_id
\* is the index of the first extra channel of type ALPHA, which comes after
\* the BLACK channel only when no ALPHA channel comes before it; if
\* alpha_bits > 0 and no ALPHA channel is found the handler goes to Error;
\* the recorded id always references an extra channel of type ALPHA.
C33_FirstAlphaChannel ==
    /\ CmykWithAlpha =>
           /\ ChannelsOfType(file, "ALPHA", 0) # {}
           /\ h.m_alpha_channel_id = First(ChannelsOfType(file, "ALPHA", 0))
           /\ file.extra_channels[h.m_alpha_channel_id + 1] = "ALPHA"
    /\ (DetectionRan /\ ChannelsOfType(file, "ALPHA", 0) = {}) =>
           (h.m_parseState = "Error" /\ ~ret.b)
    /\ (DetectionRan /\ h.m_parseState # "Error") =>
           (h.m_isCMYK /\ ChannelsOfType(file, "ALPHA", 0) # {})

\* CMYK with alpha was detected on an input whose alpha channel comes before
\* the black channel and another one after it
C33_Witness ==
    /\ CmykWithAlpha
    /\ DetectionRan
    /\ ret.b
    /\ file.extra_channels = <<"ALPHA", "BLACK", "ALPHA">>
    /\ h.m_cmyk_channel_id = 1
    /\ h.m_alpha_channel_id = 0

\* the plan the handler holds
PlanIs(n, t, in, out) ==
    /\ h.num_channels = n
    /\ h.data_type = t
    /\ h.m_input_image_format = in
    /\ h.m_target_image_format = out

\* the table of the planner, for an image that counts as gray or not
PlanTable(gray) ==
    LET bits == file.bits_per_sample
        alpha == file.alpha_bits > 0
        float == file.exponent_bits_per_sample > 0 /\ file.num_color_channels = 3
    IN  /\ (gray /\ bits <= 8) => PlanIs(1, "UINT8", "Grayscale8", "Grayscale8")
        /\ (gray /\ bits > 8) => PlanIs(1, "UINT16", "Grayscale16", "Grayscale16")
        /\ (~gray /\ bits <= 8 /\ alpha) =>
               (h.num_channels = 4 /\ h.data_type = "UINT8"
                  /\ h.m_input_image_format = "RGBA8888")
        /\ (~gray /\ bits <= 8 /\ ~alpha) => PlanIs(3, "UINT8", "RGB888", "RGB32")
        /\ (~gray /\ bits > 8 /\ ~float) =>
               PlanIs(4, "UINT16", "RGBA64", IF alpha THEN "RGBA64" ELSE "RGBX64")
        /\ (~gray /\ bits > 8 /\ bits <= 16 /\ float) =>
               PlanIs(4, "FLOAT16", "RGBA16FPx4",
                      IF alpha THEN "RGBA16FPx4" ELSE "RGBX16FPx4")
        /\ (~gray /\ bits > 16 /\ float) =>
               PlanIs(4, "FLOAT", "RGBA32FPx4",
                      IF alpha THEN "RGBA32FPx4" ELSE "RGBX32FPx4")
        /\ h.data_type \in {"FLOAT16", "FLOAT"} => float
        /\ h.num_channels \in {1, 3, 4}

\* C32 as stated: the decode pixel-format planner maps (bits_per_sample,
\* exponent_bits_per_sample, num_color_channels, alpha_bits) to (num_channels,
\* data_type, presentation format, storage format) as the table says: gray
\* <= 8 bit -> 1, U8, Gray8; gray > 8 bit -> 1, U16, Gray16; color <= 8 bit
\* with alpha -> 4, U8, RGBA8; color <= 8 bit without alpha -> 3, U8, RGB8
\* stored as RGB32; color > 8 bit int -> 4, U16, RGBA64 (RGBX64 without
\* alpha); half-float -> 4, F16; > 16 bit float -> 4, F32; the float rows
\* only when exponent_bits_per_sample > 0 and num_color_channels = 3, and
\* num_channels always in {1, 3, 4}.  Gray is an image of one colour channel.
C32_PlannerTable ==
    h.planned => PlanTable(file.num_color_channels = 1)

\* C32, amended: the same table, with the gray rows for an image of one
\* colour channel without alpha, and the colour rows for every other image,
\* a gray image with alpha included.
C32_PlannerTableGrayWithoutAlpha ==
    h.planned => PlanTable(file.num_color_channels = 1 /\ file.alpha_bits = 0)

\* the plan of a 16-bit gray image with alpha is the one of a colour image
C32_Witness ==
    /\ h.planned
    /\ op.name = "countALLFrames"
    /\ file.num_color_channels = 1 /\ file.alpha_bits = 8
    /\ file.bits_per_sample = 16 /\ file.exponent_bits_per_sample = 5
    /\ PlanIs(4, "UINT16", "RGBA64", "RGBA64")

Last(s) == s[Len(s)]

\* the places of the calls of the given names among the encoder calls made
Idx(names) == { i \in 1..Len(h.calls) : h.calls[i] \in names }

Before(first, second) == \A i \in Idx(first), j \in Idx(second) : i < j

Once(name) == Cardinality(Idx({name})) = 1

WriteSucceeded == h.pc = "done" /\ ret.b

ColourCalls == Idx({"JxlEncoderSetICCProfile", "JxlEncoderSetColorEncoding"})

NamedPrimaries ==
    file.primaries \in {"SRgb", "AdobeRgb", "DciP3D65", "ProPhotoRgb", "Bt2020"}

StructuredTransfer ==
    \/ file.transfer = "Linear"
    \/ file.transfer = "Gamma" /\ file.gamma_positive
    \/ file.transfer = "SRgb"

LossyWithColourSpace ==
    ~file.cmyk /\ file.quality < 100 /\ file.valid /\ ColourCalls # {}

\* C34 as stated: on a non-CMYK write with quality < 100 and a valid colour
\* space the ICC profile is attached exactly when the primaries are none of
\* the five named ones or the transfer function is none of Linear, Gamma with
\* gamma > 0, sRGB; every successful write makes exactly one of the two calls
C34_IccExactlyWhenUnmatched ==
    /\ LossyWithColourSpace =>
          (Idx({"JxlEncoderSetICCProfile"}) # {}
              <=> (~NamedPrimaries \/ ~StructuredTransfer))
    /\ WriteSucceeded => Cardinality(ColourCalls) = 1

\* C34: on a non-CMYK write with quality < 100 and a valid colour space the
\* ICC profile is attached exactly when the primaries are none of the five
\* named ones, and the image is not a gray one with a white point, or the
\* transfer function is none of Linear, Gamma with gamma > 0, sRGB; otherwise
\* the structured colour encoding is set; every successful write makes
\* exactly one of the two calls
C34_IccUnlessGrayWithWhitePoint ==
    /\ LossyWithColourSpace =>
          /\ Idx({"JxlEncoderSetICCProfile"}) # {}
                <=> \/ ~NamedPrimaries /\ ~(file.is_gray /\ ~file.white_null)
                    \/ ~StructuredTransfer
          /\ Idx({"JxlEncoderSetColorEncoding"}) # {}
                <=> Idx({"JxlEncoderSetICCProfile"}) = {}
    /\ WriteSucceeded => Cardinality(ColourCalls) = 1

C34_Witness ==
    /\ WriteSucceeded
    /\ LossyWithColourSpace
    /\ file.is_gray /\ ~file.white_null /\ ~NamedPrimaries /\ StructuredTransfer
    /\ Once("JxlEncoderSetColorEncoding")

\* the parts of a write in the order of the claim
Stages ==
    << {"JxlEncoderSetBasicInfo"}, {"JxlEncoderSetExtraChannelInfo"},
       {"JxlEncoderSetICCProfile", "JxlEncoderSetColorEncoding"},
       {"JxlEncoderAddBox Exif"}, {"JxlEncoderAddBox xml "},
       {"JxlEncoderCloseBoxes"}, {"JxlEncoderAddImageFrame"},
       {"JxlEncoderSetExtraChannelBuffer"}, {"JxlEncoderCloseFrames"},
       {"JxlEncoderProcessOutput"}, {"JxlEncoderDestroy"} >>

BoxOf(type) == { i \in 1..Len(h.boxes) : h.boxes[i].type = type }

\* C35: a successful write has set the basic info (then the extra channel
\* info, for CMYK), then the colour profile, then added the Exif box (four
\* zero bytes, then the Exif data) and the XMP box, then closed the boxes,
\* then added the frame (and the extra channel buffer), then closed the
\* frames, then run the output loop, then destroyed the encoder; no box is
\* ever added after CloseBoxes and no encoder call follows JxlEncoderDestroy
C35_EncoderCallOrder ==
    /\ WriteSucceeded =>
          /\ \A a, b \in 1..Len(Stages) : a < b => Before(Stages[a], Stages[b])
          /\ Once("JxlEncoderSetBasicInfo")
          /\ Cardinality(ColourCalls) = 1
          /\ Once("JxlEncoderCloseBoxes")
          /\ Once("JxlEncoderAddImageFrame")
          /\ Once("JxlEncoderCloseFrames")
          /\ Idx({"JxlEncoderProcessOutput"}) # {}
          /\ Once("JxlEncoderDestroy")
          /\ IF file.cmyk
             THEN Once("JxlEncoderSetExtraChannelInfo")
                      /\ Once("JxlEncoderSetExtraChannelBuffer")
             ELSE Idx({"JxlEncoderSetExtraChannelInfo",
                       "JxlEncoderSetExtraChannelBuffer"}) = {}
          /\ IF file.exif # <<>>
             THEN /\ Once("JxlEncoderAddBox Exif")
                  /\ \E i \in BoxOf("Exif") :
                        h.boxes[i].data = <<0, 0, 0, 0>> \o file.exif
             ELSE Idx({"JxlEncoderAddBox Exif"}) = {}
          /\ IF file.xmp # <<>>
             THEN /\ Once("JxlEncoderAddBox xml ")
                  /\ \E i \in BoxOf("xml ") : h.boxes[i].data = file.xmp
             ELSE Idx({"JxlEncoderAddBox xml "}) = {}
    /\ Before({"JxlEncoderAddBox Exif", "JxlEncoderAddBox xml "},
              {"JxlEncoderCloseBoxes"})
    /\ Idx({"JxlEncoderDestroy"}) \subseteq {Len(h.calls)}

C35_Witness ==
    /\ WriteSucceeded
    /\ file.cmyk /\ file.exif # <<>> /\ file.xmp # <<>>
    /\ Len(h.boxes) = 2

RECURSIVE Doubled(_, _)
Doubled(size, times) == IF times = 0 THEN size ELSE Doubled(2 * size, times - 1)

\* every piece of output begins where the one before it ends, the first at 0
PiecesInPlace ==
    \A i \in 1..Len(h.kept) :
        h.kept[i].at = IF i = 1 THEN 0 ELSE h.kept[i - 1].at + h.kept[i - 1].n

Produced == IF h.kept = <<>> THEN 0 ELSE Last(h.kept).at + Last(h.kept).n

OutputLoopState ==
    /\ h.pc = "output" =>
          /\ \A i \in 1..Len(h.kept) : h.kept[i].status = "NEED_MORE_OUTPUT"
          /\ h.capacity = Doubled(OutputChunk, Len(h.kept))
          /\ h.offset <= h.capacity
          /\ h.offset = Produced
          /\ PiecesInPlace
    /\ h.kept # <<>> /\ Last(h.kept).status = "SUCCESS" =>
          /\ h.pc \in {"device", "done"}
          /\ PiecesInPlace
          /\ h.capacity = Produced
    /\ h.kept # <<>> /\ Last(h.kept).status = "ERROR" =>
          /\ h.pc = "done"
          /\ ~ret.b
          /\ h.write_calls = 0

\* C36: the output loop starts with 4096 bytes and doubles them on every
\* NEED_MORE_OUTPUT; in every turn the offset is within the buffer and the
\* output so far stays where it was put; the loop is left with the first
\* SUCCESS, the buffer cut to the bytes produced, or ERROR, write returning
\* false with nothing written to the device; and it is left eventually
C36_OutputLoop ==
    /\ []OutputLoopState
    /\ (h.pc = "output") ~> (h.pc \in {"device", "done"})

C36_Witness ==
    /\ h.pc = "device"
    /\ Len(h.kept) = MaxRounds + 1
    /\ h.capacity > OutputChunk
    /\ \E i \in 1..Len(h.kept) : i > 1 /\ h.kept[i].at > 0 /\ h.kept[i].n > 0

\* C37 as stated: write returns true only when the whole compressed stream
\* went to the device in one call that took all of it; -1, 0 or fewer bytes
\* than the stream has from the device, and an empty stream, make it false
C37_TrueOnlyForWholeStream ==
    h.pc = "done" /\ Last(h.calls) = "JxlEncoderDestroy" /\ h.kept # <<>>
        /\ Last(h.kept).status = "SUCCESS" =>
            /\ ret.b => h.write_calls = 1 /\ h.write_status = h.capacity
            /\ h.capacity = 0 => ~ret.b /\ h.write_calls = 0
            /\ h.write_calls = 1 /\ h.write_status < h.capacity => ~ret.b

\* an input of more than one counted frame, read or sought in
ManyFrames(s) == Len(s.m_framedelays) > 1

\* C38: with more than one frame, whenever parse_state is Success or
\* Finished the decoder stands at frame current_index, whatever reads and
\* jumps came before, and a read that decodes hands out the frame numbered
\* current_index
C38_DecoderAtCurrentIndex ==
    /\ ManyFrames(h) /\ h.m_parseState \in {"Success", "Finished"}
          => h.dec_pos = h.m_currentimage_index
    /\ op.name = "read" /\ ret.b /\ h.decodes = 1 /\ ManyFrames(pre)
          => /\ h.m_current_image = pre.m_currentimage_index
             /\ ret.n = pre.m_currentimage_index

\* a decoding read right after a jump, away from frame 0
C38_Witness ==
    /\ op.name = "read"
    /\ ret.b
    /\ h.decodes = 1
    /\ ManyFrames(pre)
    /\ pre.m_currentimage_index > 0
    /\ pre.m_currentimage_index # pre.m_previousimage_index + 1
    /\ h.dec_pos = h.m_currentimage_index

\* what nextImageDelay() returns when called in state s
DelayNow(s) == nextImageDelay(s, file, "none")

DelaysBeforeAndAfterRead ==
    /\ LET r == DelayNow(h)
       IN  ManyFrames(r.h) /\ r.h.m_parseState # "Error"
               /\ h.m_previousimage_index = -1
             => r.n = r.h.m_framedelays[1]
    /\ op.name = "read" /\ ret.b /\ ManyFrames(h)
          => DelayNow(h).n = h.m_framedelays[ret.n + 1]
    /\ op.name \notin {"read", "new", "jumpToImage", "jumpToNextImage"}
           /\ ManyFrames(pre)
          => DelayNow(h).n = DelayNow(pre).n

\* C39 as stated: for an animation nextImageDelay() returns frame_delays[0]
\* before any read, frame_delays[i] after a successful read that returned
\* frame i, until the next read, and no jumpToImage or jumpToNextImage
\* changes what it returns
C39_DelayOfLastReadFrame ==
    /\ DelaysBeforeAndAfterRead
    /\ op.name \in {"jumpToImage", "jumpToNextImage"} /\ ManyFrames(pre)
          => DelayNow(h).n = DelayNow(pre).n

\* C39: for an animation nextImageDelay() returns frame_delays[0] before any
\* read, frame_delays[i] after a successful read that returned frame i,
\* until the next read; jumpToImage and jumpToNextImage do not change what
\* it returns, unless their rewind fails: then the state is Error and it
\* returns 0
C39_DelayOfLastReadFrameUnlessError ==
    /\ DelaysBeforeAndAfterRead
    /\ op.name \in {"jumpToImage", "jumpToNextImage"} /\ ManyFrames(pre)
          => IF h.m_parseState = "Error" /\ pre.m_parseState # "Error"
             THEN ~ret.b /\ h.rewinds = 1 /\ DelayNow(h).n = 0
             ELSE DelayNow(h).n = DelayNow(pre).n

\* a jump moved the cursor to a frame of another delay than the one last read
C39_Witness ==
    /\ op.name \in {"jumpToImage", "jumpToNextImage"}
    /\ ret.b
    /\ ManyFrames(pre)
    /\ pre.m_previousimage_index >= 0
    /\ h.m_currentimage_index # pre.m_currentimage_index
    /\ DelayNow(h).n = h.m_framedelays[h.m_previousimage_index + 1]
    /\ DelayNow(h).n # h.m_framedelays[h.m_currentimage_index + 1]

\* the signature probe of the device of handler s fails
ProbeFails(s) ==
    \/ file.len - s.device_pos < MinHeaderSize
    \/ file.sig \notin {"CODESTREAM", "CONTAINER"}

CanReadIsFalse(s) ==
    \/ s.m_parseState \in {"Error", "Finished"}
    \/ s.m_parseState = "NotParsed" /\ ProbeFails(s)

CanReadAnswer ==
    /\ canRead(h, file) = ~CanReadIsFalse(h)
    /\ op.name = "canRead" =>
          /\ ret.b = ~CanReadIsFalse(pre)
          /\ h.m_parseState = pre.m_parseState
          /\ h.m_currentimage_index = pre.m_currentimage_index
          /\ h.m_previousimage_index = pre.m_previousimage_index
          /\ h.device_pos = pre.device_pos

\* a successful read handed out the last frame of an animation or the frame
\* of a static image
ReadLastFrame ==
    /\ op.name = "read"
    /\ ret.b
    /\ ~ManyFrames(h) \/ ret.n = Len(h.m_framedelays) - 1

\* C40 as stated: canRead() is false exactly in Error and Finished and in
\* NotParsed with a failing probe; after the read of the last or only frame
\* it is false and stays so until a jumpToImage or jumpToNextImage;
\* canRead() changes neither parse_state nor the indices nor the device
\* position
C40_CanReadFalseUntilJump ==
    /\ CanReadAnswer
    /\ ReadLastFrame => ~canRead(h, file)
    /\ pre.m_parseState = "Finished"
           /\ op.name \notin {"jumpToImage", "jumpToNextImage"}
          => ~canRead(h, file)

\* C40: canRead() is false exactly in Error and Finished and in NotParsed
\* with a failing probe; after a read that decoded the last or only frame it
\* is false and stays so until a read, jumpToImage or jumpToNextImage moves
\* the state back to Success; canRead() changes neither parse_state nor the
\* indices nor the device position
C40_CanReadFalseUntilReadOrJump ==
    /\ CanReadAnswer
    /\ ReadLastFrame /\ h.decodes = 1
          => h.m_parseState = "Finished" /\ ~canRead(h, file)
    /\ pre.m_parseState = "Finished"
           /\ op.name \notin {"read", "jumpToImage", "jumpToNextImage"}
          => ~canRead(h, file)
    /\ pre.m_parseState = "Finished" /\ canRead(h, file)
          => h.m_parseState = "Success"

\* canRead() said no after the last frame of an animation
C40_Witness ==
    /\ op.name = "canRead"
    /\ ~ret.b
    /\ pre.m_parseState = "Finished"
    /\ ManyFrames(pre)
    /\ pre.m_previousimage_index = Len(pre.m_framedelays) - 1


====
